---- MODULE Spec2Model ----
(***************************************************************************)
(* Model of backend/model_service.py (ModelService, get_model_service) of  *)
(* report-ems, with the artifacts that backend/create_models.py writes.    *)
(*                                                                         *)
(* Python values are modelled as follows.                                  *)
(*   None / Optional   <<>> for None, <<v>> for a value v                  *)
(*   str (model_type)  a sequence of one-character strings, so that        *)
(*                     str.upper() is computed character by character      *)
(*   dict              a function from its set of keys                     *)
(*   float             an integer (feature values, thresholds), or an      *)
(*                     integer number of percent (probabilities)           *)
(*   DataFrame (1 row) [columns |-> names in order, row |-> values]        *)
(* Tree nodes keep scikit-learn's 0-based ids; the arrays of a tree are    *)
(* sequences, read at id + 1.                                              *)
(***************************************************************************)
EXTENDS Integers, Sequences, FiniteSets, TLC

\* ------------------------------------------------------------------ bounds

\* Length of the prefix of each feature contract that the model keeps.
MaxContract == 2
\* Number of calls (get_model_service followed by one request) in a run.
MaxCalls == 3
\* Number of cells in a batch.
MaxBatch == 3

\* --------------------------------------------------------------- Python bits

None == <<>>
Some(v) == <<v>>
IsNone(o) == o = <<>>
Get(o) == o[1]

Range(s) == {s[i] : i \in 1..Len(s)}

\* Faulty variant of Max2: the second entry, the probability of True.
Max2_PositiveClass(a, b) == b

\* max() of a pair
Max2(a, b) == IF a >= b THEN a ELSE b

RECURSIVE SumSeq(_)
SumSeq(s) == IF s = <<>> THEN 0 ELSE Head(s) + SumSeq(Tail(s))

\* str.upper() on the characters the inputs are made of.
UpperChar(c) ==
    CASE c = "e" -> "E"
      [] c = "s" -> "S"
      [] c = "m" -> "M"
      [] c = "r" -> "R"
      [] c = "o" -> "O"
      [] c = "x" -> "X"
      [] OTHER -> c

Upper(s) == [i \in 1..Len(s) |-> UpperChar(s[i])]

ES == <<"E", "S">>
MRO == <<"M", "R", "O">>

\* The keys of {feat: ... for feat in names}: first occurrences, in order.
RECURSIVE DictKeys(_)
DictKeys(names) ==
    IF names = <<>> THEN <<>>
    ELSE LET init == DictKeys(SubSeq(names, 1, Len(names) - 1))
             last == names[Len(names)]
         IN  IF last \in Range(init) THEN init ELSE Append(init, last)

\* ------------------------------------------------------- the artifacts

ES_FEATURE_NAMES ==
    << "Persistent Low Load Score", "Energy Inefficiency Score",
       "Stable QoS Confidence", "Mobility Safety Index", "Social Event Score",
       "Traffic Volatility Index", "Weather Sensitivity Score", "n_alarm" >>

MRO_FEATURE_NAMES ==
    << "Handover Failure Pressure", "Handover Success Stability",
       "Congestion-Induced HO Risk", "Mobility Volatility Index",
       "Weather-Driven Mobility Risk", "n_alarm", "Social Event Score" >>

\* The contract prefix the model keeps.
Contract(names) == SubSeq(names, 1, MaxContract)

\* A name no contract holds; the repository's API test sends it with every request.
ExtraNames == {"confidence"}

LEAF_FEATURE == -2

\* A fitted tree_: parallel arrays over the node ids 0..n-1.
\*   feature[id+1] = LEAF_FEATURE for a leaf, a column index otherwise
\*   value[id+1]   = the class probabilities <<P(False), P(True)>> in percent
TreeLeaf ==
    [ feature |-> << LEAF_FEATURE >>, threshold |-> << -2 >>,
      children_left |-> << -1 >>, children_right |-> << -1 >>,
      value |-> << <<60, 40>> >> ]

\* node 0: column 0 against 4; leaves 1 (left) and 2 (right)
TreeStump ==
    [ feature |-> << 0, LEAF_FEATURE, LEAF_FEATURE >>,
      threshold |-> << 4, -2, -2 >>,
      children_left |-> << 1, -1, -1 >>, children_right |-> << 2, -1, -1 >>,
      value |-> << <<50, 50>>, <<100, 0>>, <<20, 80>> >> ]

\* node 0: column 1 against 4; left child 1: column 0 against 0; leaves 2, 3, 4
TreeDeep ==
    [ feature |-> << 1, 0, LEAF_FEATURE, LEAF_FEATURE, LEAF_FEATURE >>,
      threshold |-> << 4, 0, -2, -2, -2 >>,
      children_left |-> << 1, 2, -1, -1, -1 >>,
      children_right |-> << 4, 3, -1, -1, -1 >>,
      value |-> << <<50, 50>>, <<50, 50>>, <<80, 20>>, <<40, 60>>, <<0, 100>> >> ]

\* Four comparisons in a row, each right child the next one: column 0
\* against 0, column 1 against 0, column 0 against 4, column 1 against 4.
TreeChain ==
    [ feature |-> << 0, LEAF_FEATURE, 1, LEAF_FEATURE, 0, LEAF_FEATURE, 1,
                     LEAF_FEATURE, LEAF_FEATURE >>,
      threshold |-> << 0, -2, 0, -2, 4, -2, 4, -2, -2 >>,
      children_left |-> << 1, -1, 3, -1, 5, -1, 7, -1, -1 >>,
      children_right |-> << 2, -1, 4, -1, 6, -1, 8, -1, -1 >>,
      value |-> << <<50, 50>>, <<90, 10>>, <<50, 50>>, <<70, 30>>, <<50, 50>>,
                   <<40, 60>>, <<50, 50>>, <<30, 70>>, <<10, 90>> >> ]

\* What create_models.py fits: one tree, no estimators_.
DecisionTreeClassifier(tree) ==
    [ class |-> "DecisionTreeClassifier", trees |-> << tree >>,
      feature_importances_ |-> Some([i \in 1..MaxContract |-> 10 * i]) ]

\* What model_service.py is written for: a forest with estimators_.
RandomForestClassifier(trees) ==
    [ class |-> "RandomForestClassifier", trees |-> trees,
      feature_importances_ |-> Some([i \in 1..MaxContract |-> 10 * (MaxContract + 1 - i)]) ]

\* An ensemble of estimators that are not trees: estimators_ without tree_,
\* no feature_importances_; `trees` tabulates the members' predict_proba.
VotingClassifier(trees) ==
    [ class |-> "VotingClassifier", trees |-> trees,
      feature_importances_ |-> None ]

\* hasattr(model, 'estimators_')
HasEstimators(model) ==
    model.class \in { "RandomForestClassifier", "VotingClassifier" }

\* model.estimators_[0] has a tree_
HasTree(model) == model.class = "RandomForestClassifier"

ModelData(model, names, tag) ==
    [ model |-> model, feature_names |-> Contract(names), model_type |-> tag ]

\* The files models/es_model.pkl and models/mro_model.pkl may hold; None: no file.
EsArtifacts ==
    { None,
      Some(ModelData(DecisionTreeClassifier(TreeDeep), ES_FEATURE_NAMES, "ES")),
      Some(ModelData(RandomForestClassifier(<<TreeDeep, TreeStump>>), ES_FEATURE_NAMES, "ES")),
      Some(ModelData(RandomForestClassifier(<<TreeLeaf>>), ES_FEATURE_NAMES, "ES")),
      Some(ModelData(VotingClassifier(<<TreeStump, TreeDeep>>), ES_FEATURE_NAMES, "ES")) }

MroArtifacts ==
    { None,
      Some(ModelData(DecisionTreeClassifier(TreeStump), MRO_FEATURE_NAMES, "MRO")),
      Some(ModelData(RandomForestClassifier(<<TreeChain, TreeDeep>>), MRO_FEATURE_NAMES, "MRO")) }

\* ------------------------------------------------- scikit-learn's tree walk

\* X as the trees read it: cast to float32. The model's numbers stand for
\* doubles; the ones float32 holds exactly are the multiples of 4, and the
\* cast rounds to the nearest of them.
Float32(v) == 4 * ((v + 2) \div 4)

\* The node ids from `node` down to the leaf the row falls in: left when
\* float32(row[feature]) <= threshold, right otherwise.
RECURSIVE TreeRoute(_, _, _)
TreeRoute(tree, row, node) ==
    IF tree.feature[node + 1] = LEAF_FEATURE THEN << node >>
    ELSE << node >> \o
         TreeRoute(tree, row,
                   IF Float32(row[tree.feature[node + 1] + 1]) <= tree.threshold[node + 1]
                   THEN tree.children_left[node + 1]
                   ELSE tree.children_right[node + 1])

\* estimator.decision_path(X): the indices of the one row.
DecisionPathIndices(tree, X) == TreeRoute(tree, X.row, 0)

TreeProba(tree, X) ==
    LET route == DecisionPathIndices(tree, X)
    IN  tree.value[route[Len(route)] + 1]

\* model.predict_proba(X)[0]: the mean over the trees.
PredictProba(model, X) ==
    LET n == Len(model.trees)
        p(c) == SumSeq([i \in 1..n |-> TreeProba(model.trees[i], X)[c]]) \div n
    IN  << p(1), p(2) >>

\* model.predict(X)[0]: classes_[argmax], the first class on a tie.
Predict(model, X) ==
    LET p == PredictProba(model, X) IN p[2] > p[1]

\* ------------------------------------------------------------ ModelService

\* ModelService.__init__: nothing loaded.
NewModelService == [ es_model_data |-> None, mro_model_data |-> None ]

\* A set's elements in some order.
RECURSIVE SetToSeq(_)
SetToSeq(S) ==
    IF S = {} THEN <<>>
    ELSE LET x == CHOOSE y \in S : TRUE IN << x >> \o SetToSeq(S \ {x})

\* Faulty variant of DataFrame: pd.DataFrame([data]) reordered, which keeps
\* the caller's extra names as columns after the expected ones.
DataFrame_AllKeys(data, expected_features) ==
    LET cols == DictKeys(expected_features)
                  \o SetToSeq(DOMAIN data \ Range(expected_features))
    IN  [ columns |-> cols, row |-> [i \in 1..Len(cols) |-> data[cols[i]]] ]

\* pd.DataFrame([{feat: data[feat] for feat in expected_features}])
DataFrame(data, expected_features) ==
    LET cols == DictKeys(expected_features)
    IN  [ columns |-> cols, row |-> [i \in 1..Len(cols) |-> data[cols[i]]] ]

NoFrame == [ columns |-> <<>>, row |-> <<>> ]

\* X.iloc[0][feature_name]
Iloc0(X, feature_name) ==
    X.row[CHOOSE i \in 1..Len(X.columns) : X.columns[i] = feature_name]

\* Faulty variant of ValidateFeatures: stops at the first missing name.
ValidateFeatures_FirstMissing(data, expected_features) ==
    LET missing == Range(expected_features) \ DOMAIN data
        first == CHOOSE i \in 1..Len(expected_features) :
                    /\ expected_features[i] \in missing
                    /\ \A j \in 1..(i - 1) : expected_features[j] \notin missing
    IN  [ raised |-> missing # {},
          missing |-> IF missing = {} THEN {} ELSE { expected_features[first] },
          warned |-> DOMAIN data \ Range(expected_features),
          df |-> IF missing # {} THEN NoFrame
                 ELSE DataFrame(data, expected_features) ]

\* ModelService._validate_features: raises ValueError naming `missing`, or
\* returns the frame; `extra` is only printed.
ValidateFeatures(data, expected_features) ==
    LET missing == Range(expected_features) \ DOMAIN data
        extra == DOMAIN data \ Range(expected_features)
    IN  [ raised |-> missing # {},
          missing |-> missing,
          warned |-> extra,
          df |-> IF missing # {} THEN NoFrame
                 ELSE DataFrame(data, expected_features) ]

\* Faulty variant of ExtractFeatureImportances: the importances are paired
\* with the names from the wrong end.
ExtractFeatureImportances_Reversed(model, feature_names) ==
    IF ~IsNone(model.feature_importances_)
    THEN LET imps == Get(model.feature_importances_)
             n == Len(feature_names)
         IN  [name \in Range(feature_names) |->
                 imps[n + 1 - (CHOOSE i \in 1..n : feature_names[i] = name)]]
    ELSE [name \in Range(feature_names) |-> 0]

\* ModelService._extract_feature_importances
ExtractFeatureImportances(model, feature_names) ==
    IF ~IsNone(model.feature_importances_)
    THEN LET imps == Get(model.feature_importances_)
             n == IF Len(imps) < Len(feature_names) THEN Len(imps) ELSE Len(feature_names)
             last(name) == CHOOSE i \in 1..n :
                              /\ feature_names[i] = name
                              /\ \A j \in 1..n : feature_names[j] = name => j <= i
         IN  [name \in {feature_names[i] : i \in 1..n} |-> imps[last(name)]]
    ELSE [name \in Range(feature_names) |-> 0]

\* Faulty variant of Passed: the comparison is not strict.
Passed_NonStrict(feature_value, threshold) == feature_value >= threshold

\* passed = feature_value > threshold
Passed(feature_value, threshold) == feature_value > threshold

\* The loop of _get_decision_path over node_index; an exception (a column
\* index outside feature_names) ends it with the nodes collected so far.
RECURSIVE PathNodes(_, _, _, _, _)
PathNodes(tree, X, feature_names, node_index, path_nodes) ==
    IF node_index = <<>> THEN path_nodes
    ELSE LET node_id == Head(node_index)
             feature_idx == tree.feature[node_id + 1]
             threshold == tree.threshold[node_id + 1]
         IN  IF feature_idx = LEAF_FEATURE
             THEN PathNodes(tree, X, feature_names, Tail(node_index), path_nodes)
             ELSE IF feature_idx + 1 \notin 1..Len(feature_names)
             THEN path_nodes
             ELSE LET feature_name == feature_names[feature_idx + 1]
                      feature_value == Iloc0(X, feature_name)
                  IN  PathNodes(tree, X, feature_names, Tail(node_index),
                        Append(path_nodes,
                               [ nodeId |-> node_id,
                                 condition |-> << feature_name, ">", threshold >>,
                                 threshold |-> threshold,
                                 featureValue |-> feature_value,
                                 featureName |-> feature_name,
                                 passed |-> Passed(feature_value, threshold) ]))

\* ModelService._get_decision_path: without estimators_ nothing is traced;
\* estimators_[0] without a tree_ raises before the first node is recorded,
\* and the except clause returns path_nodes as it stands.
GetDecisionPath(model, X, feature_names) ==
    IF HasEstimators(model)
    THEN IF ~HasTree(model)
         THEN <<>>
         ELSE LET tree == model.trees[1]
              IN  PathNodes(tree, X, feature_names, DecisionPathIndices(tree, X), <<>>)
    ELSE <<>>

\* self.es_model_data / self.mro_model_data of a service
ModelDataOf(service, tag) ==
    IF tag = "ES" THEN service.es_model_data ELSE service.mro_model_data

\* Faulty variant of NotLoaded: the guard is left out.
NotLoaded_Unchecked(model_data) == FALSE

\* `if self.es_model_data is None` (predict_es), the same for MRO
NotLoaded(model_data) == IsNone(model_data)

\* Faulty variant of ModelTypeBranch: the final else is taken for MRO.
ModelTypeBranch_NoElse(model_type) ==
    IF Upper(model_type) = ES THEN "ES" ELSE "MRO"

\* The branch predict_with_trace and get_model_info take on model_type.
ModelTypeBranch(model_type) ==
    IF Upper(model_type) = ES THEN "ES"
    ELSE IF Upper(model_type) = MRO THEN "MRO"
    ELSE "unknown"

\* The synthetic terminal node the API appends to a trace.
LeafNode ==
    [ nodeId |-> -1, condition |-> << "LEAF" >>, threshold |-> 0,
      featureValue |-> 0, featureName |-> "LEAF", passed |-> TRUE ]

\* Faulty variant of ApiTracePath: the terminal node is not appended.
ApiTracePath_NoLeaf(path) == path

\* PredictWithTrace of the API: the path of predict_with_trace, LEAF-terminated.
ApiTracePath(path) == Append(path, LeafNode)

\* ---------------------------------------------------------------- Explainer

\* The defaults of rank_top_features and counterfactuals.
DEFAULT_TOP_K == 5
DEFAULT_COUNTERFACTUAL_K == 3

Min2(a, b) == IF a <= b THEN a ELSE b

\* `names` without its i-th entry.
RemoveAt(names, i) == SubSeq(names, 1, i - 1) \o SubSeq(names, i + 1, Len(names))

\* Faulty variant of SortByImportance: of equal importances the last name
\* comes first.
RECURSIVE SortByImportance_Unstable(_, _)
SortByImportance_Unstable(names, importances) ==
    IF names = <<>> THEN <<>>
    ELSE LET i == CHOOSE i \in 1..Len(names) :
                     \A j \in 1..Len(names) :
                        \/ importances[names[j]] < importances[names[i]]
                        \/ importances[names[j]] = importances[names[i]] /\ j <= i
         IN  << names[i] >> \o SortByImportance_Unstable(RemoveAt(names, i), importances)

\* The names by importance, largest first; a stable sort: of equal
\* importances the earlier name of `names` comes first.
RECURSIVE SortByImportance(_, _)
SortByImportance(names, importances) ==
    IF names = <<>> THEN <<>>
    ELSE LET i == CHOOSE i \in 1..Len(names) :
                     \A j \in 1..Len(names) :
                        \/ importances[names[j]] < importances[names[i]]
                        \/ importances[names[j]] = importances[names[i]] /\ i <= j
         IN  << names[i] >> \o SortByImportance(RemoveAt(names, i), importances)

\* rank_top_features(importances, values, k); feature_names is the order of
\* the importances mapping, the contract's.
RankTopFeatures(feature_names, importances, values, k) ==
    LET sorted == SortByImportance(feature_names, importances)
    IN  [i \in 1..Min2(k, Len(sorted)) |->
            [ name |-> sorted[i], value |-> values[sorted[i]],
              importance |-> importances[sorted[i]] ]]

OtherTaskType(task_type) == IF task_type = "ES" THEN "MRO" ELSE "ES"

\* The Counterfactual of one DecisionNode.
Counterfactual(node, task_type) ==
    [ feature |-> node.featureName, current_value |-> node.featureValue,
      threshold_value |-> node.threshold,
      alternative_task_type |-> OtherTaskType(task_type) ]

\* Faulty variant of Counterfactuals: the first k nodes of the path, the LEAF
\* node among them when the path is short.
Counterfactuals_WithLeaf(path, task_type, k) ==
    [i \in 1..Min2(k, Len(path)) |-> Counterfactual(path[i], task_type)]

\* counterfactuals(path, k): from the first k non-leaf nodes of the
\* LEAF-terminated path.
Counterfactuals(path, task_type, k) ==
    LET IsDecision(node) == node.featureName # "LEAF"
        nodes == SelectSeq(path, IsDecision)
    IN  [i \in 1..Min2(k, Len(nodes)) |-> Counterfactual(nodes[i], task_type)]

\* ------------------------------------------------------------------ inputs

Threads == {1, 2}
\* Doubles sent by callers: 5 is above the threshold 4 and casts to 4.
FeatureValues == {0, 5, 8}

ModelTypes ==
    { <<"E", "S">>, <<"e", "s">>, <<"M", "R", "O">>, <<"m", "r", "o">>,
      <<"M", "r", "o">>, <<"X">>, <<>>, <<"E", "S", "X">> }

TagNames(tag) == IF tag = "MRO" THEN MRO_FEATURE_NAMES ELSE ES_FEATURE_NAMES

\* Every feature map over the contract's names and the extra names.
AllData(tag) ==
    UNION { [K -> FeatureValues] :
            K \in SUBSET (Range(Contract(TagNames(tag))) \cup ExtraNames) }

\* Two feature maps: a complete one and one that lacks the first name.
FewData(tag) ==
    LET names == Range(Contract(TagNames(tag)))
    IN  { [n \in names |-> 8],
          [n \in names \ {Contract(TagNames(tag))[1]} |-> 8] }

\* The identifiers of a batch's cells, by position.
CELL_IDS == << "cell-c", "cell-a", "cell-d", "cell-b", "cell-e" >>

\* The feature maps of a batch's cells: two complete ones and one that lacks
\* the first name.
BatchData(tag) ==
    FewData(tag) \cup { [n \in Range(Contract(TagNames(tag))) |-> 0] }

\* The (cell identifier, feature map) pairs of the maps `datas`.
Cells(datas) ==
    [i \in 1..Len(datas) |-> [ cell_id |-> CELL_IDS[i], data |-> datas[i] ]]

\* Every batch of up to MaxBatch cells, or one batch of one complete cell.
BatchInputs(tag, rich) ==
    IF rich
    THEN { Cells(datas) :
           datas \in UNION { [1..n -> BatchData(tag)] : n \in 0..MaxBatch } }
    ELSE { Cells(<< [n \in Range(Contract(TagNames(tag))) |-> 8] >>) }

DataInputs(tag, rich) == IF rich THEN AllData(tag) ELSE FewData(tag)

ModelTypeInputs(rich) ==
    IF rich THEN ModelTypes ELSE { <<"E", "S">>, <<"m", "r", "o">>, <<"X">> }

\* ------------------------------------------------------------------- state

VARIABLES
    disk,             \* the artifact files: [es, mro], None for a missing file
    _model_service,   \* the module global: None or Some(index into services)
    services,         \* every ModelService instance created so far
    pc,               \* per thread: where it stands
    this,             \* per thread: the instance it holds (0: none yet)
    req,              \* per thread: the request in hand
    resp,             \* per thread: the answer to its last request
    calls,            \* calls started
    load_runs,        \* load_models invocations so far
    load_failed       \* a load_models has raised

\* The state of csv_upload.py and the last call of a helper of the other
\* modules.
VARIABLES
    csv_files,        \* uploads/csv: stored filename -> content
    csv_meta,         \* metadata.json: the list under "uploads"
    csv_task,         \* per coroutine: its request, position and answer
    csv_ops,          \* requests to the CSV router so far
    csv_latest,       \* history: key -> the content last uploaded, None once deleted
    call              \* the last helper call: its function, arguments, result

service_vars == << disk, _model_service, services, pc, this, req, resp, calls,
                   load_runs, load_failed >>

csv_vars == << csv_files, csv_meta, csv_task, csv_ops, csv_latest >>

\* What model_service.py never touches.
outside == << csv_vars, call >>

vars == << service_vars, csv_vars, call >>

\* The coroutines the event loop runs for the CSV router.
Coroutines == {1, 2}

\* A mapping without keys: an empty directory, an empty history.
EmptyMap == [n \in {} |-> None]

IdleTask ==
    [ pc |-> "idle", op |-> "none", date |-> <<>>, task_type |-> <<>>, label |-> "",
      filename |-> None, content |-> None, overlapped |-> FALSE, status |-> 0, detail |-> "",
      body |-> None ]

NoCall == [ fn |-> "none", args |-> <<>>, raised |-> "", result |-> <<>> ]

\* CSV_UPLOAD_DIR.mkdir at import: an empty directory, no metadata.json.
OutsideInit ==
    /\ csv_files = EmptyMap
    /\ csv_meta = <<>>
    /\ csv_task = [c \in Coroutines |-> IdleTask]
    /\ csv_ops = 0
    /\ csv_latest = EmptyMap
    /\ call = NoCall

NoRequest ==
    [ op |-> "none", model_type |-> <<>>, tag |-> "unknown", data |-> <<>>,
      cells |-> <<>> ]

NoResponse ==
    [ outcome |-> "none", missing |-> {}, result |-> None, X |-> None,
      invoked |-> FALSE, used |-> None, path |-> <<>>, trace |-> <<>>,
      topFeatures |-> <<>>, counterfactual |-> <<>>,
      batch |-> <<>>, count |-> 0,
      tallies |-> [ applied |-> 0, not_applied |-> 0, errors |-> 0 ],
      info |-> None, after_load_failure |-> FALSE ]

TypeOK ==
    /\ pc \in [Threads -> { "idle", "gms_check", "gms_create", "gms_load", "load_es",
                            "load_mro", "gms_return", "serve", "predict_check",
                            "predict_body", "trace_path" }]
    /\ this \in [Threads -> 0..Len(services)]
    /\ calls \in 0..MaxCalls
    /\ load_failed \in BOOLEAN

InitState(es_files, mro_files) ==
    /\ disk \in [ es : es_files, mro : mro_files ]
    /\ _model_service = None
    /\ services = <<>>
    /\ pc = [t \in Threads |-> "idle"]
    /\ this = [t \in Threads |-> 0]
    /\ req = [t \in Threads |-> NoRequest]
    /\ resp = [t \in Threads |-> NoResponse]
    /\ calls = 0
    /\ load_runs = 0
    /\ load_failed = FALSE
    /\ OutsideInit

Init == InitState(EsArtifacts, MroArtifacts)

\* A thread ends its call with an answer.
Answer(t, r) ==
    /\ resp' = [resp EXCEPT ![t] = [r EXCEPT !.after_load_failure = load_failed']]
    /\ pc' = [pc EXCEPT ![t] = "idle"]

\* ------------------------------------------------------ get_model_service

\* A caller enters get_model_service.
StartCall(t) ==
    /\ pc[t] = "idle"
    /\ calls < MaxCalls
    /\ calls' = calls + 1
    /\ pc' = [pc EXCEPT ![t] = "gms_check"]
    /\ req' = [req EXCEPT ![t] = NoRequest]
    /\ resp' = [resp EXCEPT ![t] = NoResponse]
    /\ UNCHANGED << outside, disk, _model_service, services, this, load_runs, load_failed >>

\* if _model_service is None:
GmsCheck(t) ==
    /\ pc[t] = "gms_check"
    /\ pc' = [pc EXCEPT ![t] = IF IsNone(_model_service) THEN "gms_create" ELSE "gms_return"]
    /\ UNCHANGED << outside, disk, _model_service, services, this, req, resp, calls,
                    load_runs, load_failed >>

\* _model_service = ModelService()
GmsCreate(t) ==
    /\ pc[t] = "gms_create"
    /\ services' = Append(services, NewModelService)
    /\ _model_service' = Some(Len(services) + 1)
    /\ pc' = [pc EXCEPT ![t] = "gms_load"]
    /\ UNCHANGED << outside, disk, this, req, resp, calls, load_runs, load_failed >>

\* _model_service.load_models(): the global is read, the method entered.
GmsLoad(t) ==
    /\ pc[t] = "gms_load"
    /\ this' = [this EXCEPT ![t] = Get(_model_service)]
    /\ load_runs' = load_runs + 1
    /\ pc' = [pc EXCEPT ![t] = "load_es"]
    /\ UNCHANGED << outside, disk, _model_service, services, req, resp, calls, load_failed >>

\* Faulty variant of LoadFile: the instance is cleared before the first file
\* is read, so a second load_models takes away what the first one loaded.
LoadFile_ResetFirst(t, at, file, field, next) ==
    /\ pc[t] = at
    /\ IF IsNone(file)
       THEN /\ load_failed' = TRUE
            /\ Answer(t, [NoResponse EXCEPT !.outcome = "LoadError"])
            /\ UNCHANGED services
       ELSE /\ services' = [services EXCEPT ![this[t]] =
                               IF field = "ES"
                               THEN [NewModelService EXCEPT !.es_model_data = file]
                               ELSE [@ EXCEPT !.mro_model_data = file]]
            /\ pc' = [pc EXCEPT ![t] = next]
            /\ UNCHANGED << resp, load_failed >>
    /\ UNCHANGED << outside, disk, _model_service, this, req, calls, load_runs >>

\* One `with open(path) ... pickle.load(f)` of load_models; a missing or
\* unreadable file raises RuntimeError out of get_model_service.
LoadFile(t, at, file, field, next) ==
    /\ pc[t] = at
    /\ IF IsNone(file)
       THEN /\ load_failed' = TRUE
            /\ Answer(t, [NoResponse EXCEPT !.outcome = "LoadError"])
            /\ UNCHANGED services
       ELSE /\ services' = [services EXCEPT ![this[t]] =
                               IF field = "ES"
                               THEN [@ EXCEPT !.es_model_data = file]
                               ELSE [@ EXCEPT !.mro_model_data = file]]
            /\ pc' = [pc EXCEPT ![t] = next]
            /\ UNCHANGED << resp, load_failed >>
    /\ UNCHANGED << outside, disk, _model_service, this, req, calls, load_runs >>

LoadEs(t) == LoadFile(t, "load_es", disk.es, "ES", "load_mro")

LoadMro(t) == LoadFile(t, "load_mro", disk.mro, "MRO", "gms_return")

\* return _model_service
GmsReturn(t) ==
    /\ pc[t] = "gms_return"
    /\ this' = [this EXCEPT ![t] = Get(_model_service)]
    /\ pc' = [pc EXCEPT ![t] = "serve"]
    /\ UNCHANGED << outside, disk, _model_service, services, req, resp, calls,
                    load_runs, load_failed >>

\* ---------------------------------------------------------------- requests

Frame ==
    << outside, disk, _model_service, services, this, calls, load_runs, load_failed >>

\* A caller holding the service calls predict_es (tag "ES") or predict_mro.
CallPredict(t, tag, data) ==
    /\ pc[t] = "serve"
    /\ req' = [req EXCEPT ![t] =
                 [ op |-> IF tag = "ES" THEN "predict_es" ELSE "predict_mro",
                   model_type |-> IF tag = "ES" THEN ES ELSE MRO,
                   tag |-> tag, data |-> data, cells |-> <<>> ]]
    /\ pc' = [pc EXCEPT ![t] = "predict_check"]
    /\ UNCHANGED << resp, Frame >>

\* predict_with_trace up to its call of predict_es / predict_mro, or its
\* ValueError for an unknown model type.
CallPredictWithTrace(t, model_type, data) ==
    /\ pc[t] = "serve"
    /\ req' = [req EXCEPT ![t] =
                 [ op |-> "predict_with_trace", model_type |-> model_type,
                   tag |-> ModelTypeBranch(model_type), data |-> data,
                   cells |-> <<>> ]]
    /\ UNCHANGED Frame
    /\ IF ModelTypeBranch(model_type) = "unknown"
       THEN Answer(t, [NoResponse EXCEPT !.outcome = "UnknownModelType"])
       ELSE /\ pc' = [pc EXCEPT ![t] = "predict_check"]
            /\ UNCHANGED resp

\* Faulty variant of GetModelInfo: the loaded check comes before the check
\* of the model type.
GetModelInfo_LoadedFirst(service, model_type) ==
    LET tag == ModelTypeBranch(model_type)
        model_data == ModelDataOf(service, tag)
    IN  IF IsNone(model_data)
        THEN [NoResponse EXCEPT !.outcome = "NotLoaded"]
        ELSE IF tag = "unknown"
        THEN [NoResponse EXCEPT !.outcome = "UnknownModelType"]
        ELSE [NoResponse EXCEPT
                !.outcome = "ok",
                !.used = model_data,
                !.info = Some([ model_type |-> Get(model_data).model_type,
                                features |-> Get(model_data).feature_names,
                                n_features |-> Len(Get(model_data).feature_names),
                                model_class |-> Get(model_data).model.class ])]

\* The answer of get_model_info.
GetModelInfo(service, model_type) ==
    LET tag == ModelTypeBranch(model_type)
        model_data == ModelDataOf(service, tag)
    IN  IF tag = "unknown"
        THEN [NoResponse EXCEPT !.outcome = "UnknownModelType"]
        ELSE IF IsNone(model_data)
        THEN [NoResponse EXCEPT !.outcome = "NotLoaded"]
        ELSE [NoResponse EXCEPT
                !.outcome = "ok",
                !.used = model_data,
                !.info = Some([ model_type |-> Get(model_data).model_type,
                                features |-> Get(model_data).feature_names,
                                n_features |-> Len(Get(model_data).feature_names),
                                model_class |-> Get(model_data).model.class ])]

CallGetModelInfo(t, model_type) ==
    /\ pc[t] = "serve"
    /\ req' = [req EXCEPT ![t] =
                 [ op |-> "get_model_info", model_type |-> model_type,
                   tag |-> ModelTypeBranch(model_type), data |-> <<>>,
                   cells |-> <<>> ]]
    /\ UNCHANGED Frame
    /\ Answer(t, GetModelInfo(services[this[t]], model_type))

\* if self.es_model_data is None: raise RuntimeError("ES model not loaded ...")
PredictCheck(t) ==
    /\ pc[t] = "predict_check"
    /\ UNCHANGED << req, Frame >>
    /\ IF NotLoaded(ModelDataOf(services[this[t]], req[t].tag))
       THEN Answer(t, [NoResponse EXCEPT !.outcome = "NotLoaded"])
       ELSE /\ pc' = [pc EXCEPT ![t] = "predict_body"]
            /\ UNCHANGED resp

\* predict_es / predict_mro from `model = self.es_model_data['model']` on.
\* Subscripting None is a TypeError.
PredictResult(model_data, data, tag) ==
    IF IsNone(model_data)
    THEN [NoResponse EXCEPT !.outcome = "TypeError"]
    ELSE LET model == Get(model_data).model
             feature_names == Get(model_data).feature_names
             v == ValidateFeatures(data, feature_names)
             X == v.df
             probabilities == PredictProba(model, X)
         IN  IF v.raised
             THEN [NoResponse EXCEPT !.outcome = "MissingFeatures",
                                     !.missing = v.missing,
                                     !.used = model_data]
             ELSE [NoResponse EXCEPT
                     !.outcome = "ok",
                     !.X = Some(X),
                     !.invoked = TRUE,
                     !.used = model_data,
                     !.result = Some(
                        [ decision |-> Predict(model, X),
                          confidence |-> Max2(probabilities[1], probabilities[2]),
                          probabilities |-> probabilities,
                          feature_values |-> data,
                          feature_importances |->
                              ExtractFeatureImportances(model, feature_names),
                          model_type |-> tag ])]

PredictBody(t) ==
    /\ pc[t] = "predict_body"
    /\ UNCHANGED << req, Frame >>
    /\ LET r == PredictResult(ModelDataOf(services[this[t]], req[t].tag),
                              req[t].data, req[t].tag)
       IN  IF r.outcome = "ok" /\ req[t].op = "predict_with_trace"
           THEN /\ resp' = [resp EXCEPT ![t] = [r EXCEPT !.outcome = "tracing"]]
                /\ pc' = [pc EXCEPT ![t] = "trace_path"]
           ELSE Answer(t, r)

\* Faulty variant of TraceResult: _get_decision_path without its try/except,
\* so a first estimator without a tree_ ends the request with the error.
TraceResult_Unguarded(model_data, data, r) ==
    IF IsNone(model_data)
    THEN [NoResponse EXCEPT !.outcome = "TypeError"]
    ELSE LET model == Get(model_data).model
             feature_names == Get(model_data).feature_names
             X == DataFrame(data, feature_names)
             path == GetDecisionPath(model, X, feature_names)
             result == Get(r.result)
         IN  IF HasEstimators(model) /\ ~HasTree(model)
             THEN [NoResponse EXCEPT !.outcome = "AttributeError"]
             ELSE [r EXCEPT !.outcome = "ok", !.path = path,
                            !.trace = ApiTracePath(path),
                            !.topFeatures =
                                RankTopFeatures(feature_names,
                                                result.feature_importances,
                                                result.feature_values, DEFAULT_TOP_K),
                            !.counterfactual =
                                Counterfactuals(ApiTracePath(path), result.model_type,
                                                DEFAULT_COUNTERFACTUAL_K)]

\* predict_with_trace after predict_es / predict_mro returned: the model data
\* is read again, the frame rebuilt, the path extracted; the API ends the
\* path with the LEAF node and adds the top features and the counterfactuals.
TraceResult(model_data, data, r) ==
    IF IsNone(model_data)
    THEN [NoResponse EXCEPT !.outcome = "TypeError"]
    ELSE LET model == Get(model_data).model
             feature_names == Get(model_data).feature_names
             X == DataFrame(data, feature_names)
             path == GetDecisionPath(model, X, feature_names)
             result == Get(r.result)
         IN  [r EXCEPT !.outcome = "ok", !.path = path,
                       !.trace = ApiTracePath(path),
                       !.topFeatures =
                           RankTopFeatures(feature_names, result.feature_importances,
                                           result.feature_values, DEFAULT_TOP_K),
                       !.counterfactual =
                           Counterfactuals(ApiTracePath(path), result.model_type,
                                           DEFAULT_COUNTERFACTUAL_K)]

TracePath(t) ==
    /\ pc[t] = "trace_path"
    /\ UNCHANGED << req, Frame >>
    /\ Answer(t, TraceResult(ModelDataOf(services[this[t]], req[t].tag),
                             req[t].data, resp[t]))

\* ------------------------------------------------------- Batch Orchestrator

\* PredictWithTrace of the API on one feature map: predict_with_trace from
\* its model type branch to the path, with the API's additions.
ApiPredictWithTrace(service, model_type, data) ==
    LET tag == ModelTypeBranch(model_type)
        model_data == ModelDataOf(service, tag)
        r == PredictResult(model_data, data, tag)
    IN  IF tag = "unknown" THEN [NoResponse EXCEPT !.outcome = "UnknownModelType"]
        ELSE IF NotLoaded(model_data) THEN [NoResponse EXCEPT !.outcome = "NotLoaded"]
        ELSE IF r.outcome # "ok" THEN r
        ELSE TraceResult(model_data, data, r)

\* The CellBatchResult of one cell: the cell's own PredictWithTrace, its
\* failure captured as the cell's error.
BatchCell(service, model_type, cell) ==
    LET r == ApiPredictWithTrace(service, model_type, cell.data)
        ok == r.outcome = "ok"
    IN  [ cell_id |-> cell.cell_id,
          error |-> IF ok THEN None ELSE Some(r.outcome),
          decision |-> IF ok THEN Some(Get(r.result).decision) ELSE None,
          result |-> IF ok THEN r.result ELSE None,
          trace |-> IF ok THEN r.trace ELSE <<>>,
          counterfactual |-> IF ok THEN r.counterfactual ELSE <<>> ]

\* Faulty variant of BatchResults: the cells that failed are left out.
BatchResults_SkipFailed(service, model_type, cells) ==
    LET Succeeded(c) == IsNone(c.error)
    IN  SelectSeq([i \in 1..Len(cells) |-> BatchCell(service, model_type, cells[i])],
                  Succeeded)

\* Faulty variant of BatchResults: the first failing cell aborts the rest,
\* which are reported with an error of their own.
BatchResults_AbortOnError(service, model_type, cells) ==
    LET each == [i \in 1..Len(cells) |-> BatchCell(service, model_type, cells[i])]
    IN  [i \in 1..Len(cells) |->
            IF \E j \in 1..(i - 1) : ~IsNone(each[j].error)
            THEN [ each[i] EXCEPT !.error = Some("Aborted"), !.decision = None,
                                  !.result = None, !.trace = <<>>,
                                  !.counterfactual = <<>> ]
            ELSE each[i]]

\* One CellBatchResult per cell, in input order.
BatchResults(service, model_type, cells) ==
    [i \in 1..Len(cells) |-> BatchCell(service, model_type, cells[i])]

\* The derived counts: decisions true, decisions false, errors.
Tallies(results) ==
    LET n(P(_)) == Cardinality({ i \in 1..Len(results) : P(results[i]) })
        Applied(c) == c.decision = Some(TRUE)
        NotApplied(c) == c.decision = Some(FALSE)
        Errored(c) == ~IsNone(c.error)
    IN  [ applied |-> n(Applied), not_applied |-> n(NotApplied), errors |-> n(Errored) ]

\* BatchPredictWithTrace: an invalid task type fails the whole batch.
BatchPredictWithTrace(service, model_type, cells) ==
    IF ModelTypeBranch(model_type) = "unknown"
    THEN [NoResponse EXCEPT !.outcome = "UnknownModelType"]
    ELSE LET results == BatchResults(service, model_type, cells)
         IN  [NoResponse EXCEPT !.outcome = "ok", !.batch = results,
                                !.count = Len(results),
                                !.tallies = Tallies(results)]

CallBatch(t, model_type, cells) ==
    /\ pc[t] = "serve"
    /\ req' = [req EXCEPT ![t] =
                 [ op |-> "batch_predict_with_trace", model_type |-> model_type,
                   tag |-> ModelTypeBranch(model_type), data |-> <<>>,
                   cells |-> cells ]]
    /\ UNCHANGED Frame
    /\ Answer(t, BatchPredictWithTrace(services[this[t]], model_type, cells))

\* ---------------------------------------------------------- specifications

Step(t, rich) ==
    \/ StartCall(t)
    \/ GmsCheck(t)
    \/ GmsCreate(t)
    \/ GmsLoad(t)
    \/ LoadEs(t)
    \/ LoadMro(t)
    \/ GmsReturn(t)
    \/ \E tag \in {"ES", "MRO"} : \E data \in DataInputs(tag, rich) :
          CallPredict(t, tag, data)
    \/ \E model_type \in ModelTypeInputs(rich) :
          \E data \in DataInputs(ModelTypeBranch(model_type), rich) :
             CallPredictWithTrace(t, model_type, data)
    \/ \E model_type \in ModelTypeInputs(rich) : CallGetModelInfo(t, model_type)
    \/ \E model_type \in ModelTypeInputs(FALSE) :
          \E cells \in BatchInputs(ModelTypeBranch(model_type), rich) :
             CallBatch(t, model_type, cells)
    \/ PredictCheck(t)
    \/ PredictBody(t)
    \/ TracePath(t)

\* One caller at a time, every input.
Next == Step(1, TRUE)

Spec == Init /\ [][Next]_vars

\* Callers on two threads, any interleaving of their steps, few inputs.
InitConc ==
    InitState({ None, Some(ModelData(RandomForestClassifier(<<TreeStump>>),
                                     ES_FEATURE_NAMES, "ES")) },
              { None, Some(ModelData(DecisionTreeClassifier(TreeStump),
                                     MRO_FEATURE_NAMES, "MRO")) })

NextConc == \E t \in Threads : Step(t, FALSE)

SpecConc == InitConc /\ [][NextConc]_vars

\* ============================================================ csv_upload.py

\* str.lower() on the characters the file names are made of.
LowerChar(c) ==
    CASE c = "C" -> "c"
      [] c = "S" -> "s"
      [] c = "V" -> "v"
      [] c = "T" -> "t"
      [] c = "X" -> "x"
      [] OTHER -> c

Lower(s) == [i \in 1..Len(s) |-> LowerChar(s[i])]

DOT_CSV == << ".", "c", "s", "v" >>

\* str.endswith
EndsWith(s, suffix) ==
    /\ Len(s) >= Len(suffix)
    /\ \A i \in 1..Len(suffix) : s[Len(s) - Len(suffix) + i] = suffix[i]

\* Days of a month of the Gregorian calendar.
IsLeap(y) == (y % 4 = 0 /\ y % 100 # 0) \/ y % 400 = 0

DaysInMonth(y, m) ==
    IF m = 2 THEN (IF IsLeap(y) THEN 29 ELSE 28)
    ELSE IF m \in {4, 6, 9, 11} THEN 30 ELSE 31

\* datetime.strptime(date, "%Y-%m-%d") succeeds; a date is the numbers
\* between its dashes.
Strptime(date) ==
    /\ Len(date) = 3
    /\ date[1] \in 1..9999
    /\ date[2] \in 1..12
    /\ date[3] \in 1..DaysInMonth(date[1], date[2])

\* _make_key: the parts of f"{date}_{task_type.upper()}_{label}"
MakeKey(date, task_type, label) ==
    IF label # "" THEN << date, Upper(task_type), label >>
    ELSE << date, Upper(task_type) >>

\* Path(original_name).suffix: empty for a name that is only a suffix.
PathSuffix(name) == IF name.stem = "" THEN <<>> ELSE name.suffix

\* Faulty variant of SanitizeFilename: the label is left out of the name.
SanitizeFilename_NoLabel(date, task_type, original_name, label) ==
    LET ext == IF PathSuffix(original_name) # <<>> THEN PathSuffix(original_name)
               ELSE DOT_CSV
    IN  [ base |-> << date, Upper(task_type) >>, ext |-> ext ]

\* _sanitize_filename: the parts of f"{date}_{task_type.upper()}_{label}{ext}"
SanitizeFilename(date, task_type, original_name, label) ==
    LET ext == IF PathSuffix(original_name) # <<>> THEN PathSuffix(original_name)
               ELSE DOT_CSV
    IN  [ base |-> MakeKey(date, task_type, label), ext |-> ext ]

\* pd.read_csv on the uploaded bytes.
ReadCsv(content) ==
    CASE content.kind = "table" ->
            [ raised |-> "", empty |-> content.rows = 0, rows |-> content.rows,
              columns |-> content.columns ]
      [] content.kind = "garbage" ->
            [ raised |-> "ParserError", empty |-> TRUE, rows |-> 0, columns |-> <<>> ]
      [] OTHER ->
            [ raised |-> "EmptyDataError", empty |-> TRUE, rows |-> 0, columns |-> <<>> ]

\* The first entry of the index under `key`, None when there is none.
FindEntry(uploads, key) ==
    IF \E i \in 1..Len(uploads) : uploads[i].key = key
    THEN Some(uploads[CHOOSE i \in 1..Len(uploads) :
                        /\ uploads[i].key = key
                        /\ \A j \in 1..(i - 1) : uploads[j].key # key])
    ELSE None

\* Faulty variant of WithoutKey: nothing is filtered out.
WithoutKey_Keep(uploads, key) == uploads

\* [u for u in metadata["uploads"] if u["key"] != key]
WithoutKey(uploads, key) ==
    LET Other(u) == u.key # key IN SelectSeq(uploads, Other)

\* A directory with `name` written.
WriteFile(files, name, content) ==
    [n \in DOMAIN files \cup {name} |-> IF n = name THEN content ELSE files[n]]

\* A directory with `name` removed.
RemoveFile(files, name) == [n \in DOMAIN files \ {name} |-> files[n]]

\* ---- the requests the CSV router is sent

\* The (date, task_type, label) of get_csv_data and delete_csv requests: the
\* two keys of one day, a lower-case task type, and an unknown task type.
CsvKeyRequests ==
    { [ date |-> << 2024, 1, 5 >>, task_type |-> task_type, label |-> "" ] :
          task_type \in { ES, << "e", "s" >>, << "X" >> } }
    \cup
    { [ date |-> << 2024, 1, 5 >>, task_type |-> ES, label |-> "before_plan" ] }

\* The upload_csv requests: well-formed ones on the two keys (with a lower-
\* case task type, an upper-case extension, a name that is only ".csv"), and
\* one request for each reason a request is refused for (a date that does not
\* exist among them).
CsvUploadRequests ==
    LET ok_date == << 2024, 1, 5 >>
        kpi_csv == [ stem |-> "kpi", suffix |-> DOT_CSV ]
        kpi_csv_upper == [ stem |-> "kpi", suffix |-> << ".", "C", "S", "V" >> ]
        notes_txt == [ stem |-> "notes", suffix |-> << ".", "t", "x", "t" >> ]
        bare_csv == [ stem |-> "", suffix |-> DOT_CSV ]
    IN  { [ date |-> ok_date, task_type |-> ES, label |-> l, filename |-> f ] :
              l \in { "", "before_plan" }, f \in { kpi_csv, kpi_csv_upper } }
        \cup
        { [ date |-> ok_date, task_type |-> << "e", "s" >>, label |-> "", filename |-> kpi_csv ],
          [ date |-> ok_date, task_type |-> ES, label |-> "", filename |-> bare_csv ],
          [ date |-> ok_date, task_type |-> << "X" >>, label |-> "", filename |-> kpi_csv ],
          [ date |-> ok_date, task_type |-> ES, label |-> "draft", filename |-> kpi_csv ],
          [ date |-> << 2024, 2, 30 >>, task_type |-> ES, label |-> "", filename |-> kpi_csv ],
          [ date |-> ok_date, task_type |-> ES, label |-> "", filename |-> notes_txt ] }

\* The text of a file name.
FilenameText(name) == << name.stem >> \o name.suffix

CsvContents ==
    { [ kind |-> "table", columns |-> << "cell", "load" >>, rows |-> 2 ],
      [ kind |-> "table", columns |-> << "cell" >>, rows |-> 1 ],
      [ kind |-> "table", columns |-> << "cell" >>, rows |-> 0 ],
      [ kind |-> "garbage", columns |-> <<>>, rows |-> 0 ],
      [ kind |-> "zero_bytes", columns |-> <<>>, rows |-> 0 ] }

\* ---- the handlers

VALID_TASK_TYPES == { << "E", "S" >>, << "M", "R", "O" >> }
VALID_LABELS == { "before_plan", "after_plan" }

MaxCsvOps == 3

\* upload_csv up to its await: the status the request is refused with, 0 when
\* it passes every validation.
UploadRejects(date, task_type, label, filename) ==
    IF Upper(task_type) \notin VALID_TASK_TYPES THEN 400
    ELSE IF label # "" /\ label \notin VALID_LABELS THEN 400
    ELSE IF ~Strptime(date) THEN 400
    ELSE IF ~EndsWith(Lower(FilenameText(filename)), DOT_CSV) THEN 400
    ELSE 0

\* The index entry of an upload (uploaded_at, a wall-clock stamp, is left out).
UploadEntry(date, task_type, label, filename, df) ==
    [ key |-> MakeKey(date, task_type, label),
      date |-> date,
      task_type |-> Upper(task_type),
      label |-> label,
      original_filename |-> filename,
      stored_filename |-> SanitizeFilename(date, task_type, filename, label),
      rows |-> df.rows,
      columns |-> df.columns ]

\* Faulty variant of StoreUpload: the index is rewritten with the new entry only.
StoreUpload_Overwrite(files, uploads, date, task_type, label, filename, content) ==
    LET df == ReadCsv(content)
        entry == UploadEntry(date, task_type, label, filename, df)
    IN  IF df.raised = "ParserError" THEN
            [ status |-> 400, files |-> files, uploads |-> uploads, body |-> None ]
        ELSE IF df.raised = "EmptyDataError" THEN
            [ status |-> 500, files |-> files, uploads |-> uploads, body |-> None ]
        ELSE IF df.empty THEN
            [ status |-> 400, files |-> files, uploads |-> uploads, body |-> None ]
        ELSE
            [ status |-> 200,
              files |-> WriteFile(files, entry.stored_filename, content),
              uploads |-> << entry >>,
              body |-> Some([ key |-> entry.key, stored_filename |-> entry.stored_filename,
                              rows |-> df.rows, columns |-> df.columns ]) ]

\* Faulty variant of StoreUpload: the file is written before it is parsed.
StoreUpload_SaveFirst(files, uploads, date, task_type, label, filename, content) ==
    LET df == ReadCsv(content)
        entry == UploadEntry(date, task_type, label, filename, df)
        saved == WriteFile(files, entry.stored_filename, content)
    IN  IF df.raised = "ParserError" THEN
            [ status |-> 400, files |-> saved, uploads |-> uploads, body |-> None ]
        ELSE IF df.raised = "EmptyDataError" THEN
            [ status |-> 500, files |-> saved, uploads |-> uploads, body |-> None ]
        ELSE IF df.empty THEN
            [ status |-> 400, files |-> saved, uploads |-> uploads, body |-> None ]
        ELSE
            [ status |-> 200,
              files |-> saved,
              uploads |-> Append(WithoutKey(uploads, entry.key), entry),
              body |-> Some([ key |-> entry.key, stored_filename |-> entry.stored_filename,
                              rows |-> df.rows, columns |-> df.columns ]) ]

\* upload_csv after its await: parse, save the file, then load, modify and
\* save the index.  A ParserError is answered 400, an empty frame 400, and
\* the EmptyDataError of a file of no bytes is not caught (500).
StoreUpload(files, uploads, date, task_type, label, filename, content) ==
    LET df == ReadCsv(content)
        entry == UploadEntry(date, task_type, label, filename, df)
    IN  IF df.raised = "ParserError" THEN
            [ status |-> 400, files |-> files, uploads |-> uploads, body |-> None ]
        ELSE IF df.raised = "EmptyDataError" THEN
            [ status |-> 500, files |-> files, uploads |-> uploads, body |-> None ]
        ELSE IF df.empty THEN
            [ status |-> 400, files |-> files, uploads |-> uploads, body |-> None ]
        ELSE
            [ status |-> 200,
              files |-> WriteFile(files, entry.stored_filename, content),
              uploads |-> Append(WithoutKey(uploads, entry.key), entry),
              body |-> Some([ key |-> entry.key, stored_filename |-> entry.stored_filename,
                              rows |-> df.rows, columns |-> df.columns ]) ]

\* get_csv_data: stored files were parsed when they were uploaded, so the
\* read of an existing file succeeds.
GetCsvData(files, uploads, date, task_type, label) ==
    LET entry == FindEntry(uploads, MakeKey(date, task_type, label))
    IN  IF Upper(task_type) \notin VALID_TASK_TYPES THEN [ status |-> 400, body |-> None ]
        ELSE IF entry = None THEN [ status |-> 404, body |-> None ]
        ELSE IF entry[1].stored_filename \notin DOMAIN files THEN
            [ status |-> 404, body |-> None ]
        ELSE LET df == ReadCsv(files[entry[1].stored_filename])
             IN  [ status |-> 200,
                   body |-> Some([ key |-> entry[1].key, columns |-> df.columns,
                                   rows |-> df.rows,
                                   data |-> files[entry[1].stored_filename] ]) ]

\* delete_csv: the task type is upper-cased but not validated.
DeleteCsv(files, uploads, date, task_type, label) ==
    LET key == MakeKey(date, task_type, label)
        entry == FindEntry(uploads, key)
    IN  IF entry = None THEN
            [ status |-> 404, files |-> files, uploads |-> uploads ]
        ELSE
            [ status |-> 200,
              files |-> IF entry[1].stored_filename \in DOMAIN files
                        THEN RemoveFile(files, entry[1].stored_filename) ELSE files,
              uploads |-> WithoutKey(uploads, key) ]

\* A request as a coroutine holds it.
CsvRequest(op, date, task_type, label, filename) ==
    [ IdleTask EXCEPT !.op = op, !.date = date, !.task_type = task_type,
                      !.label = label, !.filename = filename ]

CanBegin(c) == csv_task[c].pc \in { "idle", "done" } /\ csv_ops < MaxCsvOps

\* upload_csv, lines 84-113: the validations, then the await of file.read().
UploadBegin(c) ==
    /\ CanBegin(c)
    /\ \E u \in CsvUploadRequests :
          LET r == CsvRequest("upload", u.date, u.task_type, u.label, Some(u.filename))
              status == UploadRejects(u.date, u.task_type, u.label, u.filename)
          IN  csv_task' = [csv_task EXCEPT ![c] =
                  IF status # 0 THEN [r EXCEPT !.pc = "done", !.status = status]
                  ELSE [r EXCEPT !.pc = "await_read"]]
    /\ csv_ops' = csv_ops + 1
    /\ UNCHANGED << service_vars, call, csv_files, csv_meta, csv_latest >>

\* upload_csv, lines 117-172: everything after the await, in one turn of the
\* event loop.
UploadFinish(c) ==
    /\ csv_task[c].pc = "await_read"
    /\ \E content \in CsvContents :
          LET t == csv_task[c]
              out == StoreUpload(csv_files, csv_meta, t.date, t.task_type, t.label,
                                 t.filename[1], content)
              key == MakeKey(t.date, t.task_type, t.label)
          IN  /\ csv_files' = out.files
              /\ csv_meta' = out.uploads
              /\ csv_task' = [csv_task EXCEPT ![c] =
                      [t EXCEPT !.pc = "done", !.content = Some(content),
                                !.overlapped = \E d \in Coroutines \ {c} :
                                                   csv_task[d].pc = "await_read",
                                !.status = out.status, !.body = out.body]]
              /\ csv_latest' = IF out.status = 200
                               THEN WriteFile(csv_latest, key, Some(content))
                               ELSE csv_latest
    /\ UNCHANGED << service_vars, call, csv_ops >>

\* get_csv_data: no await, one turn of the event loop.
CsvGet(c) ==
    /\ CanBegin(c)
    /\ \E k \in CsvKeyRequests :
          LET out == GetCsvData(csv_files, csv_meta, k.date, k.task_type, k.label)
          IN  csv_task' = [csv_task EXCEPT ![c] =
                  [CsvRequest("get", k.date, k.task_type, k.label, None)
                       EXCEPT !.pc = "done", !.status = out.status, !.body = out.body]]
    /\ csv_ops' = csv_ops + 1
    /\ UNCHANGED << service_vars, call, csv_files, csv_meta, csv_latest >>

\* delete_csv: no await, one turn of the event loop.
CsvDelete(c) ==
    /\ CanBegin(c)
    /\ \E k \in CsvKeyRequests :
          LET out == DeleteCsv(csv_files, csv_meta, k.date, k.task_type, k.label)
              key == MakeKey(k.date, k.task_type, k.label)
          IN  /\ csv_files' = out.files
              /\ csv_meta' = out.uploads
              /\ csv_task' = [csv_task EXCEPT ![c] =
                      [CsvRequest("delete", k.date, k.task_type, k.label, None)
                           EXCEPT !.pc = "done", !.status = out.status]]
              /\ csv_latest' = IF out.status = 200
                               THEN WriteFile(csv_latest, key, None)
                               ELSE csv_latest
    /\ csv_ops' = csv_ops + 1
    /\ UNCHANGED << service_vars, call >>

\* No model artifact on disk, nothing uploaded, nothing called.
InitEmpty == InitState({None}, {None})

NextCsv ==
    \E c \in Coroutines :
        \/ UploadBegin(c)
        \/ UploadFinish(c)
        \/ CsvGet(c)
        \/ CsvDelete(c)

SpecCsv == InitEmpty /\ [][NextCsv]_vars

\* ========================================================== new_endpoint.py

\* date.max.toordinal(): the last day a date can hold, 9999-12-31.
DATE_MAX == 3652059

\* Days of the year before the first of month m.
RECURSIVE DaysBeforeMonth(_, _)
DaysBeforeMonth(y, m) ==
    IF m = 1 THEN 0 ELSE DaysBeforeMonth(y, m - 1) + DaysInMonth(y, m - 1)

\* date.fromordinal: year, month and day of a proleptic Gregorian ordinal.
Ord2Ymd(ordinal) ==
    LET n0 == ordinal - 1
        n400 == n0 \div 146097
        r400 == n0 % 146097
        n100 == r400 \div 36524
        r100 == r400 % 36524
        n4 == r100 \div 1461
        r4 == r100 % 1461
        n1 == r4 \div 365
        n == r4 % 365
        year == n400 * 400 + n100 * 100 + n4 * 4 + n1 + 1
    IN  IF n1 = 4 \/ n100 = 4 THEN << year - 1, 12, 31 >>
        ELSE LET month == CHOOSE m \in 1..12 :
                              /\ DaysBeforeMonth(year, m) <= n
                              /\ n < DaysBeforeMonth(year, m) + DaysInMonth(year, m)
             IN  << year, month, n - DaysBeforeMonth(year, month) + 1 >>

\* date.strftime("%Y-%m-%d"): the numbers between the dashes.
Strftime(ordinal) == Ord2Ymd(ordinal)

\* The while loop of _get_date_range; `current += timedelta(days=1)` raises
\* OverflowError past date.max.
RECURSIVE DateLoop(_, _, _)
DateLoop(current, end_date, dates) ==
    IF current <= end_date THEN
        IF current + 1 > DATE_MAX THEN [ raised |-> "OverflowError", dates |-> <<>> ]
        ELSE DateLoop(current + 1, end_date, Append(dates, Strftime(current)))
    ELSE [ raised |-> "", dates |-> dates ]

\* _get_date_range; a datetime is its date's ordinal and its second of the day.
GetDateRange(start_time, end_time) == DateLoop(start_time.date, end_time.date, <<>>)

\* pd.read_csv(file_path, usecols=lambda col: col in columns)
ReadKpiCsv(file, columns) ==
    LET Wanted(col) == col \in columns
    IN  [ columns |-> SelectSeq(file.columns, Wanted), rows |-> file.rows ]

\* The columns of a concatenation: each frame's new columns after the ones before.
RECURSIVE ConcatColumns(_)
ConcatColumns(dfs) ==
    IF dfs = <<>> THEN <<>>
    ELSE LET before == ConcatColumns(SubSeq(dfs, 1, Len(dfs) - 1))
             New(col) == \A i \in 1..Len(before) : before[i] # col
         IN  before \o SelectSeq(dfs[Len(dfs)].columns, New)

RECURSIVE ConcatRows(_)
ConcatRows(dfs) ==
    IF dfs = <<>> THEN <<>> ELSE Head(dfs).rows \o ConcatRows(Tail(dfs))

\* pd.concat(dfs, ignore_index=True)
Concat(dfs) == [ columns |-> ConcatColumns(dfs), rows |-> ConcatRows(dfs) ]

\* The for loop of _load_kpi_files: the frames read and the files missing.
RECURSIVE LoadKpiLoop(_, _, _, _, _)
LoadKpiLoop(kpi_dir, dates, columns, dfs, missing_files) ==
    IF dates = <<>> THEN [ dfs |-> dfs, missing_files |-> missing_files ]
    ELSE LET date == Head(dates)
         IN  IF date \notin DOMAIN kpi_dir THEN
                 LoadKpiLoop(kpi_dir, Tail(dates), columns, dfs, Append(missing_files, date))
             ELSE IF kpi_dir[date].kind # "table" THEN
                 LoadKpiLoop(kpi_dir, Tail(dates), columns, dfs, missing_files)
             ELSE
                 LoadKpiLoop(kpi_dir, Tail(dates), columns,
                             Append(dfs, ReadKpiCsv(kpi_dir[date], columns)), missing_files)

\* _load_kpi_files
LoadKpiFiles(kpi_dir, dates, columns) ==
    LET loop == LoadKpiLoop(kpi_dir, dates, columns, <<>>, <<>>)
    IN  IF loop.dfs = <<>> THEN [ raised |-> "FileNotFoundError", result |-> None ]
        ELSE [ raised |-> "", result |-> Some(Concat(loop.dfs)) ]

\* ---- the calls

MaxSpanDays == 3

\* The daily KPI files of three consecutive days.
KPI_DAYS == << 738944, 738945, 738946 >>

KpiFiles ==
    { [ kind |-> "table", columns |-> << "datetime", "load" >>, rows |-> << 1, 2 >> ],
      [ kind |-> "table", columns |-> << "datetime", "drops" >>, rows |-> << 3 >> ],
      [ kind |-> "unreadable", columns |-> <<>>, rows |-> <<>> ] }

\* The directories: each day's file is absent or one of the files.
KpiDirs ==
    UNION { [ { Strftime(KPI_DAYS[i]) : i \in present } -> KpiFiles ] :
                present \in SUBSET (1..Len(KPI_DAYS)) }

KpiColumns == { { "datetime", "load" }, { "datetime", "load", "drops" } }

\* _get_date_range as extract_historical_kpi calls it (line 175): ranges that
\* end after a leap day (2024-03-01), at a turn of the year (2024-01-01) and
\* on the last days a date can hold, at two times of the day.
CallGetDateRange ==
    /\ call = NoCall
    /\ \E end_day \in { 738946, 738886, DATE_MAX - 1, DATE_MAX }, span \in -1..MaxSpanDays,
          t1 \in { 0, 600 }, t2 \in { 0, 600 } :
          LET start_time == [ date |-> end_day - span, time |-> t1 ]
              end_time == [ date |-> end_day, time |-> t2 ]
              out == GetDateRange(start_time, end_time)
          IN  /\ end_day - span \in 1..DATE_MAX
              /\ call' = [ fn |-> "_get_date_range",
                           args |-> [ start_time |-> start_time, end_time |-> end_time ],
                           raised |-> out.raised,
                           result |-> out.dates ]
    /\ UNCHANGED << service_vars, csv_vars >>

\* _load_kpi_files as extract_historical_kpi calls it (line 179), on the
\* dates of a range ending on the last of the three days.
CallLoadKpiFiles ==
    /\ call = NoCall
    /\ \E kpi_dir \in KpiDirs, first \in 1..(Len(KPI_DAYS) + 1), columns \in KpiColumns :
          LET dates == [i \in 1..(Len(KPI_DAYS) - first + 1) |->
                            Strftime(KPI_DAYS[first + i - 1])]
              out == LoadKpiFiles(kpi_dir, dates, columns)
          IN  call' = [ fn |-> "_load_kpi_files",
                       args |-> [ kpi_dir |-> kpi_dir, dates |-> dates, columns |-> columns ],
                       raised |-> out.raised,
                       result |-> out.result ]
    /\ UNCHANGED << service_vars, csv_vars >>

\* ======================================================= context_snapshot.py

\* `needle in haystack` for strings.
Contains(haystack, needle) ==
    \E i \in 0..(Len(haystack) - Len(needle)) :
        \A j \in 1..Len(needle) : haystack[i + j] = needle[j]

\* df.iloc[start_idx:end_idx] for indices that are not negative.
Iloc(rows, start_idx, end_idx) ==
    SubSeq(rows, Min2(start_idx, Len(rows)) + 1, Min2(end_idx, Len(rows)))

\* Lines 79-96: the optional filters.  A time that does not parse leaves its
\* filter out.
SnapshotFilter(rows, cell_name, start_time, end_time) ==
    LET ByName(r) == Contains(Lower(r.cell_name), Lower(cell_name[1]))
        After(r) == r.time_bucket >= start_time[1].at
        Before(r) == r.time_bucket <= end_time[1].at
        named == IF cell_name # None /\ cell_name[1] # <<>>
                 THEN SelectSeq(rows, ByName) ELSE rows
        started == IF start_time # None /\ start_time[1].parses
                   THEN SelectSeq(named, After) ELSE named
    IN  IF end_time # None /\ end_time[1].parses
        THEN SelectSeq(started, Before) ELSE started

\* Faulty variant of Paginate: the first page starts one page in.
Paginate_PageFromZero(rows, page, page_size) ==
    LET start_idx == page * page_size
        end_idx == start_idx + page_size
    IN  Iloc(rows, start_idx, end_idx)

\* Lines 102-104.
Paginate(rows, page, page_size) ==
    LET start_idx == (page - 1) * page_size
        end_idx == start_idx + page_size
    IN  Iloc(rows, start_idx, end_idx)

\* get_context_snapshot
GetContextSnapshot(file, page, page_size, cell_name, start_time, end_time) ==
    IF file.kind = "missing" THEN [ status |-> 404, total |-> 0, data |-> <<>> ]
    ELSE IF file.kind = "unreadable" THEN [ status |-> 500, total |-> 0, data |-> <<>> ]
    ELSE IF file.rows = <<>> THEN [ status |-> 200, total |-> 0, data |-> <<>> ]
    ELSE LET df == SnapshotFilter(file.rows, cell_name, start_time, end_time)
         IN  [ status |-> 200, total |-> Len(df), data |-> Paginate(df, page, page_size) ]

MaxPage == 3
MaxPageSize == 3

SNAPSHOT_ROWS ==
    LET Row(id, cell_name, time_bucket) ==
            [ context_snapshot_id |-> id, cell_name |-> cell_name,
              time_bucket |-> time_bucket ]
    IN  << Row(1, << "C", "1" >>, 1), Row(2, << "s", "1" >>, 1), Row(3, << "c", "2" >>, 2),
           Row(4, << "C", "1" >>, 3), Row(5, << "S", "2" >>, 3) >>

SnapshotFiles ==
    { [ kind |-> "missing", rows |-> <<>> ],
      [ kind |-> "unreadable", rows |-> <<>> ],
      [ kind |-> "table", rows |-> <<>> ],
      [ kind |-> "table", rows |-> SubSeq(SNAPSHOT_ROWS, 1, 2) ],
      [ kind |-> "table", rows |-> SNAPSHOT_ROWS ] }

CellNameFilters == { None, Some(<<>>), Some(<< "C" >>), Some(<< "s", "2" >>), Some(<< "x" >>) }
\* A time filter is absent, an ISO datetime, or text pd.to_datetime refuses.
TimeFilters == { None, Some([ parses |-> TRUE, at |-> 2 ]), Some([ parses |-> FALSE, at |-> 0 ]) }

CallGetContextSnapshot ==
    /\ call = NoCall
    /\ \E file \in SnapshotFiles, page \in 1..MaxPage, page_size \in 1..MaxPageSize,
          cell_name \in CellNameFilters, start_time \in TimeFilters, end_time \in TimeFilters :
          LET out == GetContextSnapshot(file, page, page_size, cell_name, start_time, end_time)
          IN  call' = [ fn |-> "get_context_snapshot",
                       args |-> [ file |-> file, page |-> page, page_size |-> page_size,
                                  cell_name |-> cell_name, start_time |-> start_time,
                                  end_time |-> end_time ],
                       raised |-> "",
                       result |-> out ]
    /\ UNCHANGED << service_vars, csv_vars >>

\* =================================================================== main.py

\* What the body of a handler's try block does: it returns, or raises an
\* exception of a class (an HTTPException carries a status).
Returns == [ class |-> "", status |-> 200 ]
Raises(class) == [ class |-> class, status |-> 0 ]
HTTPException(status) == [ class |-> "HTTPException", status |-> status ]

\* Lines 71-98.
ListFilesBody(path) ==
    IF path = "missing" THEN HTTPException(404)
    ELSE IF path # "directory" /\ path # "locked_directory" THEN HTTPException(400)
    ELSE IF path = "locked_directory" THEN Raises("PermissionError")
    ELSE Returns

\* list_files: `except PermissionError` (403), then `except Exception` (500);
\* HTTPException is an Exception.
ListFiles(path) ==
    LET out == ListFilesBody(path)
    IN  IF out.class = "" THEN 200
        ELSE IF out.class = "PermissionError" THEN 403
        ELSE 500

\* pd.read_csv(file_path) for a path that exists().
ReadCsvPath(path) ==
    IF path = "vanishing_file" THEN Raises("FileNotFoundError")
    ELSE IF path \in { "directory", "locked_directory" } THEN Raises("IsADirectoryError")
    ELSE IF path = "unparsable_file" THEN Raises("ParserError")
    ELSE Returns

\* Lines 109-125.
GetDataframeInfoBody(path) ==
    IF path = "missing" THEN HTTPException(404) ELSE ReadCsvPath(path)

\* get_dataframe_info: `except FileNotFoundError` (404), then `except Exception` (500).
GetDataframeInfo(path) ==
    LET out == GetDataframeInfoBody(path)
    IN  IF out.class = "" THEN 200
        ELSE IF out.class = "FileNotFoundError" THEN 404
        ELSE 500

\* Lines 143-273 and 294-468: the file is looked up and read, and a frame
\* without numeric columns is refused.
KpiBody(path) ==
    IF path = "missing" THEN HTTPException(404)
    ELSE IF ReadCsvPath(path).class # "" THEN ReadCsvPath(path)
    ELSE IF path = "text_only_file" THEN HTTPException(400)
    ELSE Returns

\* visualize_kpi_data: `except Exception` (500) is the only handler.
VisualizeKpiData(path) == IF KpiBody(path).class = "" THEN 200 ELSE 500

\* generate_kpi_report: `except Exception` (500) is the only handler.
GenerateKpiReport(path) == IF KpiBody(path).class = "" THEN 200 ELSE 500

\* What a request's path is on the server's disk.
Paths ==
    { "missing", "directory", "locked_directory", "kpi_file", "text_only_file",
      "unparsable_file", "vanishing_file" }

MainCall(fn, path, body, status) ==
    /\ call = NoCall
    /\ call' = [ fn |-> fn, args |-> [ path |-> path ], raised |-> body.class,
                 result |-> [ status |-> status, body |-> body ] ]
    /\ UNCHANGED << service_vars, csv_vars >>

CallListFiles == \E path \in Paths : MainCall("list_files", path, ListFilesBody(path), ListFiles(path))

CallGetDataframeInfo ==
    \E path \in Paths :
        MainCall("get_dataframe_info", path, GetDataframeInfoBody(path), GetDataframeInfo(path))

CallVisualizeKpiData ==
    \E path \in Paths : MainCall("visualize_kpi_data", path, KpiBody(path), VisualizeKpiData(path))

CallGenerateKpiReport ==
    \E path \in Paths : MainCall("generate_kpi_report", path, KpiBody(path), GenerateKpiReport(path))

\* ---- the specification of the stateless helpers and handlers: a behaviour
\* is one call, on any of the inputs

NextFn ==
    \/ CallGetDateRange
    \/ CallLoadKpiFiles
    \/ CallGetContextSnapshot
    \/ CallListFiles
    \/ CallGetDataframeInfo
    \/ CallVisualizeKpiData
    \/ CallGenerateKpiReport

SpecFn == InitEmpty /\ [][NextFn]_vars

\* ------------------------------------------------------------------ claims

PredictOps == { "predict_es", "predict_mro" }

\* Thread t has its answer.
Answered(t) == pc[t] = "idle" /\ resp[t].outcome # "none"

\* The model data thread t's request is served from.
ServedFrom(t) == ModelDataOf(services[this[t]], req[t].tag)

\* C1: predict_es / predict_mro on a feature map that lacks a name of the
\* loaded artifact's feature contract fails with the missing-features error,
\* which names exactly the contract names absent from the map; no
\* PredictionResult is produced and the model is not invoked.
C1_MissingFeaturesEnumerated ==
    \A t \in Threads :
        (Answered(t) /\ req[t].op \in PredictOps /\ ~IsNone(ServedFrom(t))) =>
            LET contract == Range(Get(ServedFrom(t)).feature_names)
            IN  (contract \ DOMAIN req[t].data # {}) =>
                    /\ resp[t].outcome = "MissingFeatures"
                    /\ resp[t].missing = contract \ DOMAIN req[t].data
                    /\ IsNone(resp[t].result)
                    /\ ~resp[t].invoked

\* C1 witness: a predict_mro answered with the missing-features error for a
\* map that lacks every contract name and carries an extra one.
C1_Witness ==
    \E t \in Threads :
        /\ Answered(t) /\ req[t].op = "predict_mro"
        /\ resp[t].outcome = "MissingFeatures"
        /\ resp[t].missing = Range(Contract(MRO_FEATURE_NAMES))
        /\ DOMAIN req[t].data = ExtraNames

\* C2: a feature map holding every contract name (and any extra names) never
\* gets the missing-features error, and the frame handed to the model has
\* exactly the contract's names as columns, in contract order, each with the
\* caller's value.
C2_ValidMapOrderedVector ==
    \A t \in Threads :
        (Answered(t) /\ req[t].op \in PredictOps \cup {"predict_with_trace"}
           /\ req[t].tag # "unknown" /\ ~IsNone(ServedFrom(t))) =>
            LET contract == Get(ServedFrom(t)).feature_names
            IN  (Range(contract) \subseteq DOMAIN req[t].data) =>
                    /\ resp[t].outcome = "ok"
                    /\ ~IsNone(resp[t].X)
                    /\ Get(resp[t].X).columns = contract
                    /\ Len(Get(resp[t].X).row) = Len(contract)
                    /\ \A i \in 1..Len(contract) :
                          Get(resp[t].X).row[i] = req[t].data[contract[i]]

\* C2 witness: an answered prediction for a map with an extra name whose
\* contract values differ from one another.
C2_Witness ==
    \E t \in Threads :
        /\ Answered(t) /\ req[t].op = "predict_es" /\ resp[t].outcome = "ok"
        /\ ExtraNames \subseteq DOMAIN req[t].data
        /\ Get(resp[t].X).row[1] # Get(resp[t].X).row[2]

\* C3: feature_values of every PredictionResult has exactly the contract's
\* names as keys.
C3_FeatureValuesContractFiltered ==
    \A t \in Threads :
        (resp[t].outcome = "ok" /\ ~IsNone(resp[t].result)) =>
            DOMAIN Get(resp[t].result).feature_values
                = Range(Get(resp[t].used).feature_names)

\* C4 as stated: predict_with_trace with a task_type that is not one of
\* ES, MRO fails with the invalid-task-type error, with no result and no
\* model invoked.
C4_NotMemberRejected ==
    \A t \in Threads :
        (Answered(t) /\ req[t].op = "predict_with_trace"
           /\ req[t].model_type \notin {ES, MRO}) =>
            /\ resp[t].outcome = "UnknownModelType"
            /\ IsNone(resp[t].result)
            /\ ~resp[t].invoked

\* C4 amended: predict_with_trace with a task_type whose upper-cased form is
\* not one of ES, MRO fails with the invalid-task-type error, whatever the
\* feature map, with no result, no model data read and no model invoked.
C4_UpperNotMemberRejected ==
    \A t \in Threads :
        (req[t].op = "predict_with_trace" /\ Upper(req[t].model_type) \notin {ES, MRO}) =>
            /\ pc[t] = "idle"
            /\ resp[t].outcome = "UnknownModelType"
            /\ IsNone(resp[t].result)
            /\ IsNone(resp[t].used)
            /\ ~resp[t].invoked

\* C4 witness: the invalid-task-type error for a map that lacks every feature.
C4_Witness ==
    \E t \in Threads :
        /\ Answered(t) /\ req[t].op = "predict_with_trace"
        /\ req[t].model_type = <<"E", "S", "X">>
        /\ DOMAIN req[t].data = {}
        /\ resp[t].outcome = "UnknownModelType"

\* C5: once a load_models has failed, no request is answered successfully.
C5_NothingServedAfterLoadFailure ==
    \A t \in Threads : ~(resp[t].outcome = "ok" /\ resp[t].after_load_failure)

\* C6: a request never reads model data that is absent: no answer comes from
\* subscripting None, a thread past the loaded check holds loaded data, and
\* every answer of a single request computed from model data used the whole
\* artifact of its file.
C6_NeverUsesAbsentArtifact ==
    \A t \in Threads :
        /\ resp[t].outcome # "TypeError"
        /\ pc[t] \in {"predict_body", "trace_path"} => ~IsNone(ServedFrom(t))
        /\ (req[t].op # "batch_predict_with_trace"
              /\ resp[t].outcome \in {"ok", "tracing", "MissingFeatures"}) =>
              /\ ~IsNone(resp[t].used)
              /\ resp[t].used = (IF req[t].tag = "ES" THEN disk.es ELSE disk.mro)

\* C6 witness: a prediction rejected as not loaded while another thread is
\* still inside load_models of the same instance.
C6_Witness ==
    \E t, u \in Threads :
        /\ t # u
        /\ Answered(t) /\ req[t].op \in PredictOps \cup {"predict_with_trace"}
        /\ resp[t].outcome = "NotLoaded"
        /\ pc[u] \in {"load_es", "load_mro"}
        /\ this[u] = this[t]
        /\ ~load_failed

\* C7: one ModelService instance is ever created, load_models runs at most
\* once, and all callers hold the same instance.
C7_OneInstanceOneLoad ==
    /\ Len(services) <= 1
    /\ load_runs <= 1
    /\ \A t, u \in Threads : (this[t] # 0 /\ this[u] # 0) => this[t] = this[u]

\* C8: every node of the extracted path has passed = (feature_value >
\* threshold), strictly, for the caller's value of the node's feature and the
\* threshold of that node of the traced tree.
C8_PassedIsStrictGreater ==
    \A t \in Threads : \A i \in 1..Len(resp[t].path) :
        LET node == resp[t].path[i]
            tree == Get(resp[t].used).model.trees[1]
            names == Get(resp[t].used).feature_names
        IN  /\ node.passed = (node.featureValue > node.threshold)
            /\ node.featureValue = req[t].data[node.featureName]
            /\ node.threshold = tree.threshold[node.nodeId + 1]
            /\ node.featureName = names[tree.feature[node.nodeId + 1] + 1]

\* C8 witness: a path node whose feature value equals its threshold.
C8_Witness ==
    \E t \in Threads : \E i \in 1..Len(resp[t].path) :
        /\ resp[t].path[i].featureValue = resp[t].path[i].threshold
        /\ ~resp[t].path[i].passed

C10_SingleTreeTraced ==
    \A t \in Threads :
        (Answered(t) /\ req[t].op = "predict_with_trace" /\ resp[t].outcome = "ok") =>
            LET model == Get(resp[t].used).model
                tree == model.trees[1]
            IN  (tree.feature[1] # LEAF_FEATURE) =>
                    /\ Len(resp[t].path) >= 1
                    /\ resp[t].path[1].nodeId = 0
                    /\ resp[t].path[1].threshold = tree.threshold[1]

\* An answered predict_with_trace of thread t whose model has a first
\* estimator with a tree_.
TracedTree(t) ==
    /\ Answered(t) /\ req[t].op = "predict_with_trace" /\ resp[t].outcome = "ok"
    /\ HasEstimators(Get(resp[t].used).model)
    /\ HasTree(Get(resp[t].used).model)

\* The longest root-to-leaf count of internal nodes below `node`.
RECURSIVE TreeDepth(_, _)
TreeDepth(tree, node) ==
    IF tree.feature[node + 1] = LEAF_FEATURE THEN 0
    ELSE LET l == TreeDepth(tree, tree.children_left[node + 1])
             r == TreeDepth(tree, tree.children_right[node + 1])
         IN  1 + (IF l >= r THEN l ELSE r)

\* C11: the nodes recorded for a traced tree are the internal nodes of one
\* root-to-leaf walk, in order: the first is the root, each next node is the
\* right child of its predecessor if the predecessor passed and the left
\* child otherwise, the walk ends where that child is a leaf, no recorded
\* node is a leaf, and there are at most depth-many of them.
C11_PathFollowsPassed ==
    \A t \in Threads :
        TracedTree(t) =>
            LET tree == Get(resp[t].used).model.trees[1]
                path == resp[t].path
                child(n) == IF n.passed THEN tree.children_right[n.nodeId + 1]
                            ELSE tree.children_left[n.nodeId + 1]
            IN  /\ (tree.feature[1] = LEAF_FEATURE) = (path = <<>>)
                /\ path # <<>> => path[1].nodeId = 0
                /\ \A i \in 1..Len(path) :
                      tree.feature[path[i].nodeId + 1] # LEAF_FEATURE
                /\ \A i \in 1..(Len(path) - 1) :
                      path[i + 1].nodeId = child(path[i])
                /\ path # <<>> =>
                      tree.feature[child(path[Len(path)]) + 1] = LEAF_FEATURE
                /\ Len(path) <= TreeDepth(tree, 0)

\* The first estimator of thread t's model cannot be walked.
Untraversable(t) ==
    /\ ~IsNone(ServedFrom(t))
    /\ HasEstimators(Get(ServedFrom(t)).model)
    /\ ~HasTree(Get(ServedFrom(t)).model)

\* C12: when the path extraction fails (the first estimator has no tree_),
\* predict_with_trace on a valid map still answers, with an empty path and
\* the PredictionResult predict_es / predict_mro returns for that map.
C12_FailedTraceKeepsPrediction ==
    \A t \in Threads :
        (Answered(t) /\ req[t].op = "predict_with_trace" /\ req[t].tag # "unknown"
           /\ Untraversable(t)
           /\ Range(Get(ServedFrom(t)).feature_names) \subseteq DOMAIN req[t].data) =>
            /\ resp[t].outcome = "ok"
            /\ resp[t].path = <<>>
            /\ ~IsNone(resp[t].result)
            /\ resp[t].result
                  = PredictResult(ServedFrom(t), req[t].data, req[t].tag).result

\* C12 witness: an answered trace on an untraversable model: no path node,
\* a decision, and only the LEAF node in the API's trace.
C12_Witness ==
    \E t \in Threads :
        /\ Answered(t) /\ req[t].op = "predict_with_trace" /\ Untraversable(t)
        /\ resp[t].outcome = "ok"
        /\ resp[t].path = <<>>
        /\ Get(resp[t].result).decision
        /\ resp[t].trace = << LeafNode >>

\* C13: the confidence of every PredictionResult is the larger entry of its
\* probability pair: one of the two entries and at least each of them,
\* whichever class the decision names.
C13_ConfidenceIsMaxProbability ==
    \A t \in Threads :
        ~IsNone(resp[t].result) =>
            LET result == Get(resp[t].result)
            IN  /\ result.confidence \in { result.probabilities[1],
                                           result.probabilities[2] }
                /\ result.confidence >= result.probabilities[1]
                /\ result.confidence >= result.probabilities[2]

\* C13 witness: an answered prediction that decides False with a confidence
\* above the probability of True.
C13_Witness ==
    \E t \in Threads :
        /\ Answered(t) /\ req[t].op \in PredictOps /\ resp[t].outcome = "ok"
        /\ ~Get(resp[t].result).decision
        /\ Get(resp[t].result).confidence = Get(resp[t].result).probabilities[1]
        /\ Get(resp[t].result).confidence > Get(resp[t].result).probabilities[2]

\* The positions of a thread inside a request operation.
RequestPcs == { "serve", "predict_check", "predict_body", "trace_path" }

\* C14: no step of a request operation changes an instance's model data or
\* the files, and model data, once loaded into an instance, stays what it
\* is in every later state, whatever the interleaving of the callers.
C14_LoadedDataNeverChanges ==
    [][ /\ (\E t \in Threads : pc[t] \in RequestPcs /\ pc'[t] # pc[t])
            => (services' = services /\ disk' = disk)
        /\ \A i \in 1..Len(services) :
              /\ ~IsNone(services[i].es_model_data)
                    => services'[i].es_model_data = services[i].es_model_data
              /\ ~IsNone(services[i].mro_model_data)
                    => services'[i].mro_model_data = services[i].mro_model_data
      ]_vars

\* C14 witness: a loaded instance that has answered a prediction while a
\* second load_models runs on it.
C14_Witness ==
    \E t, u \in Threads :
        /\ t # u /\ this[t] = this[u]
        /\ Answered(t) /\ req[t].op \in PredictOps /\ resp[t].outcome = "ok"
        /\ pc[u] = "load_mro"
        /\ ~IsNone(services[this[u]].mro_model_data)

\* C16: feature_importances of every PredictionResult has exactly the
\* contract's names as keys; the i-th name maps to the i-th entry of the
\* model's feature_importances_ when the model has them and to 0 otherwise;
\* a model without them still answers a valid map.
C16_ImportancesByContractName ==
    \A t \in Threads :
        /\ ~IsNone(resp[t].result) =>
              LET model == Get(resp[t].used).model
                  names == Get(resp[t].used).feature_names
                  fi == Get(resp[t].result).feature_importances
              IN  /\ DOMAIN fi = Range(names)
                  /\ \A i \in 1..Len(names) :
                        fi[names[i]] = IF IsNone(model.feature_importances_) THEN 0
                                       ELSE Get(model.feature_importances_)[i]
        /\ (Answered(t) /\ req[t].op \in PredictOps /\ ~IsNone(ServedFrom(t))
              /\ Range(Get(ServedFrom(t)).feature_names) \subseteq DOMAIN req[t].data) =>
              (resp[t].outcome = "ok" /\ ~IsNone(resp[t].result))

\* C16 witness: an answered prediction of a model without
\* feature_importances_, every contract name mapped to 0.
C16_Witness ==
    \E t \in Threads :
        /\ Answered(t) /\ req[t].op = "predict_es" /\ resp[t].outcome = "ok"
        /\ IsNone(Get(resp[t].used).model.feature_importances_)
        /\ \A name \in Range(Contract(ES_FEATURE_NAMES)) :
              Get(resp[t].result).feature_importances[name] = 0

\* An answered PredictWithTrace of thread t.
TraceAnswered(t) ==
    Answered(t) /\ req[t].op = "predict_with_trace" /\ resp[t].outcome = "ok"

\* The place of `name` in the contract `names`.
IndexIn(names, name) == CHOOSE i \in 1..Len(names) : names[i] = name

\* `top` is what the ranking of the contract `names` owes for k: min(k,
\* number of names) entries of distinct contract names, each with the
\* caller's value and the name's importance, by importance descending,
\* equal importances in contract order.
IsRanking(top, names, importances, values, k) ==
    /\ Len(top) = Min2(k, Len(names))
    /\ \A i \in 1..Len(top) :
          /\ top[i].name \in Range(names)
          /\ top[i].importance = importances[top[i].name]
          /\ top[i].value = values[top[i].name]
          \* no name left out is more important, or as important and earlier
          /\ \A name \in Range(names) \ { top[j].name : j \in 1..Len(top) } :
                \/ importances[name] < top[i].importance
                \/ /\ importances[name] = top[i].importance
                   /\ IndexIn(names, top[i].name) < IndexIn(names, name)
    /\ \A i, j \in 1..Len(top) :
          i < j =>
            \/ top[i].importance > top[j].importance
            \/ /\ top[i].importance = top[j].importance
               /\ IndexIn(names, top[i].name) < IndexIn(names, top[j].name)

\* C19: the top features of a PredictWithTrace are the ranking of the
\* contract for k = 5, and rank_top_features on the same importances is the
\* ranking for every k up to 5: min(k, number of contract features) entries,
\* by importance descending, equal importances in contract order.
C19_TopFeaturesRanked ==
    \A t \in Threads :
        TraceAnswered(t) =>
            LET names == Get(resp[t].used).feature_names
                result == Get(resp[t].result)
            IN  /\ IsRanking(resp[t].topFeatures, names, result.feature_importances,
                              req[t].data, DEFAULT_TOP_K)
                /\ \A k \in 0..DEFAULT_TOP_K :
                      IsRanking(RankTopFeatures(names, result.feature_importances,
                                                result.feature_values, k),
                                names, result.feature_importances, req[t].data, k)

\* C19 witness: a model whose importances are all equal: the top features
\* are the whole contract in contract order, fewer than 5, and k = 1 gives
\* the first contract name.
C19_Witness ==
    \E t \in Threads :
        /\ TraceAnswered(t)
        /\ IsNone(Get(resp[t].used).model.feature_importances_)
        /\ Len(resp[t].topFeatures) = MaxContract
        /\ MaxContract < DEFAULT_TOP_K
        /\ \A i \in 1..MaxContract :
              resp[t].topFeatures[i].name = Contract(ES_FEATURE_NAMES)[i]
        /\ RankTopFeatures(Get(resp[t].used).feature_names,
                           Get(resp[t].result).feature_importances,
                           Get(resp[t].result).feature_values, 1)[1].name
              = ES_FEATURE_NAMES[1]

\* C20: the counterfactuals of a PredictWithTrace come from the first 3
\* non-leaf nodes of the trace, in order: min(3, number of non-leaf nodes)
\* entries (none for a trace of the LEAF node alone), the i-th with the
\* feature, value and threshold of the i-th non-leaf node, none naming LEAF,
\* each with the task type other than the request's as the alternative.
C20_CounterfactualsFromFirstNodes ==
    \A t \in Threads :
        TraceAnswered(t) =>
            LET cf == resp[t].counterfactual
                path == resp[t].path
            IN  /\ \A i \in 1..Len(path) : path[i].featureName # "LEAF"
                /\ resp[t].trace = Append(path, LeafNode)
                /\ Len(cf) = Min2(DEFAULT_COUNTERFACTUAL_K, Len(path))
                /\ \A i \in 1..Len(cf) :
                      /\ cf[i].feature = path[i].featureName
                      /\ cf[i].feature # "LEAF"
                      /\ cf[i].current_value = path[i].featureValue
                      /\ cf[i].threshold_value = path[i].threshold
                      /\ cf[i].alternative_task_type \in {"ES", "MRO"} \ {req[t].tag}

\* C20 witness: a trace of four comparisons and the LEAF node, with three
\* counterfactuals.
C20_Witness ==
    \E t \in Threads :
        /\ TraceAnswered(t)
        /\ Len(resp[t].trace) = 5
        /\ Len(resp[t].counterfactual) = 3
        /\ resp[t].counterfactual[3].feature = resp[t].trace[3].featureName

\* An answered BatchPredictWithTrace of thread t.
BatchAnswered(t) == Answered(t) /\ req[t].op = "batch_predict_with_trace"

\* The feature map of a cell lacks a name of the loaded contract.
FailsValidation(t, cell) ==
    /\ ~IsNone(ServedFrom(t))
    /\ ~(Range(Get(ServedFrom(t)).feature_names) \subseteq DOMAIN cell.data)

\* C17: a BatchPredictWithTrace with a valid task type returns one result
\* per input cell, in input order, whatever the batch size and wherever the
\* failing cells stand: the i-th result carries the i-th cell's identifier
\* and, when it has a PredictionResult, the i-th cell's feature map, and the
\* count is the number of cells.
C17_OneResultPerCellInOrder ==
    \A t \in Threads :
        (BatchAnswered(t) /\ req[t].tag # "unknown") =>
            LET cells == req[t].cells
                results == resp[t].batch
            IN  /\ resp[t].outcome = "ok"
                /\ Len(results) = Len(cells)
                /\ resp[t].count = Len(cells)
                /\ \A i \in 1..Len(cells) :
                      /\ results[i].cell_id = cells[i].cell_id
                      /\ ~IsNone(results[i].result) =>
                            Get(results[i].result).feature_values = cells[i].data
                      /\ FailsValidation(t, cells[i]) => ~IsNone(results[i].error)

\* C17 witness: a batch of three cells answered with three results, the
\* second one an error between two decisions.
C17_Witness ==
    \E t \in Threads :
        /\ BatchAnswered(t) /\ resp[t].outcome = "ok"
        /\ Len(req[t].cells) = 3 /\ resp[t].count = 3
        /\ ~IsNone(resp[t].batch[1].decision)
        /\ resp[t].batch[2].error = Some("MissingFeatures")
        /\ ~IsNone(resp[t].batch[3].decision)

\* C18: in a batch, a cell whose feature map fails validation gets an error
\* and no decision; every cell's result is the one the cell gets alone, and
\* the results of the other cells are those of the batch without the failing
\* cell; the batch as a whole fails only for an invalid task type.
C18_FailingCellIsolated ==
    \A t \in Threads :
        BatchAnswered(t) =>
            LET cells == req[t].cells
                results == resp[t].batch
                service == services[this[t]]
            IN  /\ (resp[t].outcome # "ok") = (req[t].tag = "unknown")
                /\ resp[t].outcome \in {"ok", "UnknownModelType"}
                /\ resp[t].outcome = "ok" =>
                      \A i \in 1..Len(cells) :
                         /\ results[i] = BatchCell(service, req[t].model_type, cells[i])
                         /\ FailsValidation(t, cells[i]) =>
                               /\ results[i].error = Some("MissingFeatures")
                               /\ IsNone(results[i].decision)
                               /\ RemoveAt(results, i)
                                     = BatchResults(service, req[t].model_type,
                                                    RemoveAt(cells, i))

\* C18 witness: a batch whose first cell fails validation and whose second
\* and third cells carry different decisions.
C18_Witness ==
    \E t \in Threads :
        /\ BatchAnswered(t) /\ resp[t].outcome = "ok"
        /\ Len(req[t].cells) = 3
        /\ FailsValidation(t, req[t].cells[1])
        /\ ~IsNone(resp[t].batch[1].error) /\ IsNone(resp[t].batch[1].decision)
        /\ resp[t].batch[2].decision = Some(TRUE)
        /\ resp[t].batch[3].decision = Some(FALSE)
        /\ resp[t].tallies = [ applied |-> 1, not_applied |-> 1, errors |-> 1 ]

\* C21: get_model_info answers a model type whose upper-cased form is not
\* ES or MRO with the unknown-model-type error, whatever is loaded; a known
\* type that is not loaded with the not-loaded error; and a loaded type with
\* the artifact's feature contract, its length as the feature count, the
\* artifact's model type and the class of its model.
C21_ModelInfoOfLoadedType ==
    \A t \in Threads :
        (Answered(t) /\ req[t].op = "get_model_info") =>
            IF Upper(req[t].model_type) \notin {ES, MRO}
            THEN resp[t].outcome = "UnknownModelType" /\ IsNone(resp[t].info)
            ELSE LET file == IF Upper(req[t].model_type) = ES
                             THEN services[this[t]].es_model_data
                             ELSE services[this[t]].mro_model_data
                 IN  IF IsNone(file)
                     THEN resp[t].outcome = "NotLoaded" /\ IsNone(resp[t].info)
                     ELSE /\ resp[t].outcome = "ok"
                          /\ Get(resp[t].info).features = Get(file).feature_names
                          /\ Get(resp[t].info).n_features
                                = Len(Get(resp[t].info).features)
                          /\ Get(resp[t].info).n_features = MaxContract
                          /\ Get(resp[t].info).model_type = Get(file).model_type
                          /\ Get(resp[t].info).model_class = Get(file).model.class

\* C21 witness: an unknown model type answered with the unknown-model-type
\* error by a service that has loaded neither artifact.
C21_Witness ==
    \E t \in Threads :
        /\ Answered(t) /\ req[t].op = "get_model_info"
        /\ req[t].model_type = <<"X">>
        /\ resp[t].outcome = "UnknownModelType"
        /\ IsNone(services[this[t]].es_model_data)
        /\ IsNone(services[this[t]].mro_model_data)

\* ---- csv_upload.py

\* The keys of the index.
IndexKeys(uploads) == { uploads[i].key : i \in 1..Len(uploads) }

\* The positions of the index that hold `key`.
PositionsOf(uploads, key) == { i \in 1..Len(uploads) : uploads[i].key = key }

\* The entries of keys other than `key`, in index order.
RECURSIVE EntriesOfOthers(_, _)
EntriesOfOthers(uploads, key) ==
    IF uploads = <<>> THEN <<>>
    ELSE IF Head(uploads).key = key THEN EntriesOfOthers(Tail(uploads), key)
    ELSE << Head(uploads) >> \o EntriesOfOthers(Tail(uploads), key)

\* Coroutine c has an upload_csv request answered.
UploadDone(c, status) ==
    /\ csv_task[c].pc = "done"
    /\ csv_task[c].op = "upload"
    /\ csv_task[c].status = status

\* In this step coroutine c's request is answered.
AnsweredNow(c, op) ==
    /\ csv_task'[c] # csv_task[c]
    /\ csv_task'[c].pc = "done"
    /\ csv_task'[c].op = op

\* The key of the request coroutine c holds.
TaskKey(t) == << t.date, Upper(t.task_type) >> \o (IF t.label = "" THEN <<>> ELSE << t.label >>)

\* C22 (step): a successful upload leaves exactly one entry under its key,
\* the new one, and the entries of all other keys as they were.
C22_UploadReplaces ==
    \A c \in Coroutines :
        (AnsweredNow(c, "upload") /\ csv_task'[c].status = 200) =>
            LET key == TaskKey(csv_task'[c])
            IN  /\ Cardinality(PositionsOf(csv_meta', key)) = 1
                /\ \A i \in PositionsOf(csv_meta', key) :
                       /\ csv_meta'[i].rows = csv_task'[c].content[1].rows
                       /\ csv_meta'[i].original_filename = csv_task'[c].filename[1]
                /\ EntriesOfOthers(csv_meta', key) = EntriesOfOthers(csv_meta, key)

\* C22: after any sequence of upload_csv and delete_csv operations the index
\* holds at most one entry per key (date, upper-cased task_type, label), and
\* an upload to an existing key replaces that key's entry and leaves the
\* entries of all other keys unchanged.
C22_OneEntryPerKey ==
    /\ [](\A i, j \in 1..Len(csv_meta) : csv_meta[i].key = csv_meta[j].key => i = j)
    /\ [][C22_UploadReplaces]_vars

\* C22 witness: two successful uploads to one key, of different tables and
\* nothing else, have left one entry.
C22_Witness ==
    /\ csv_ops = 2
    /\ UploadDone(1, 200) /\ UploadDone(2, 200)
    /\ TaskKey(csv_task[1]) = TaskKey(csv_task[2])
    /\ csv_task[1].content # csv_task[2].content
    /\ Len(csv_meta) = 1

\* C23 (step): the answer of get_csv_data and delete_csv against the last
\* successful operation on the key.
C23_AnswerFollowsHistory ==
    \A c \in Coroutines :
        LET t == csv_task'[c]
            key == TaskKey(t)
        IN  /\ (AnsweredNow(c, "get") /\ key \in DOMAIN csv_latest) =>
                   IF csv_latest[key] # None
                   THEN /\ t.status = 200
                        /\ t.body[1].rows = csv_latest[key][1].rows
                        /\ t.body[1].columns = csv_latest[key][1].columns
                        /\ t.body[1].data = csv_latest[key][1]
                   ELSE t.status = 404
            /\ (AnsweredNow(c, "delete") /\ key \in DOMAIN csv_latest) =>
                   IF csv_latest[key] # None
                   THEN t.status = 200 /\ csv_latest'[key] = None
                   ELSE t.status = 404

\* C23: after a successful upload_csv for (date, task_type, label),
\* get_csv_data for the same key returns the rows and columns of the most
\* recent upload to that key until the key is deleted; after delete_csv for
\* the key, get_csv_data and a second delete_csv both answer 404 until the
\* key is uploaded again.
C23_GetReturnsLatestUpload == [][C23_AnswerFollowsHistory]_vars

\* C23 witness: get_csv_data answered with the later of two uploads to its
\* key, the earlier one being the other coroutine's.
C23_Witness ==
    \E c, d \in Coroutines :
        /\ csv_task[c].pc = "done" /\ csv_task[c].op = "get" /\ csv_task[c].status = 200
        /\ UploadDone(d, 200)
        /\ TaskKey(csv_task[d]) = TaskKey(csv_task[c])
        /\ csv_task[c].body[1].data # csv_task[d].content[1]
        /\ csv_task[c].body[1].data = csv_latest[TaskKey(csv_task[c])][1]

\* C24: after any sequence of successful upload_csv and delete_csv
\* operations the stored CSV files correspond one-to-one to the index
\* entries: every entry's stored_filename exists and no stored file is
\* without an entry.
C24_FilesMatchEntries ==
    /\ \A i \in 1..Len(csv_meta) : csv_meta[i].stored_filename \in DOMAIN csv_files
    /\ \A name \in DOMAIN csv_files :
           \E i \in 1..Len(csv_meta) : csv_meta[i].stored_filename = name
    /\ \A i, j \in 1..Len(csv_meta) :
           csv_meta[i].stored_filename = csv_meta[j].stored_filename => i = j

\* C25: two upload_csv requests with distinct keys, one completed while the
\* other was in flight, both have their entry in the index once both have
\* completed (neither key having been deleted since).
C25_NoLostUpdate ==
    \A c, d \in Coroutines :
        ( /\ UploadDone(c, 200) /\ UploadDone(d, 200)
          /\ TaskKey(csv_task[c]) # TaskKey(csv_task[d])
          /\ csv_latest[TaskKey(csv_task[c])] # None
          /\ csv_latest[TaskKey(csv_task[d])] # None )
        => { TaskKey(csv_task[c]), TaskKey(csv_task[d]) } \subseteq IndexKeys(csv_meta)

\* C25 witness: both uploads completed, the first of them while the second
\* was awaiting its file, and the index holds the two entries.
C25_Witness ==
    \E c, d \in Coroutines :
        /\ UploadDone(c, 200) /\ UploadDone(d, 200)
        /\ csv_task[c].overlapped
        /\ TaskKey(csv_task[c]) # TaskKey(csv_task[d])
        /\ Len(csv_meta) = 2

\* C26 (step): a refused upload changes neither the index nor the files.
C26_RefusalKeepsState ==
    \A c \in Coroutines :
        (AnsweredNow(c, "upload") /\ csv_task'[c].status = 400) =>
            /\ csv_meta' = csv_meta
            /\ csv_files' = csv_files

\* C26: an upload_csv request rejected with status 400 (task type, label,
\* date, file name, empty or unparsable CSV) leaves both the metadata index
\* and the stored files unchanged.
C26_RejectedUploadChangesNothing == [][C26_RefusalKeepsState]_vars

\* C26 witness: an unparsable upload to an existing key answered 400, the
\* key still holding the table uploaded before.
C26_Witness ==
    \E c, d \in Coroutines :
        /\ UploadDone(c, 400)
        /\ csv_task[c].content # None
        /\ csv_task[c].content[1].kind = "garbage"
        /\ UploadDone(d, 200)
        /\ TaskKey(csv_task[d]) = TaskKey(csv_task[c])
        /\ csv_latest[TaskKey(csv_task[c])] = csv_task[d].content

\* ---- new_endpoint.py

\* The rows of every requested day's file, in the order of the dates.
RECURSIVE RowsOfAll(_, _)
RowsOfAll(kpi_dir, dates) ==
    IF dates = <<>> THEN <<>>
    ELSE kpi_dir[Head(dates)].rows \o RowsOfAll(kpi_dir, Tail(dates))

\* C27: _load_kpi_files raises FileNotFoundError if any required daily KPI
\* file (one per date in the requested list) is missing; otherwise it returns
\* the concatenation of all requested files in date order.
C27_RaisesWhenAnyFileMissing ==
    call.fn = "_load_kpi_files" =>
        IF \E i \in 1..Len(call.args.dates) : call.args.dates[i] \notin DOMAIN call.args.kpi_dir
        THEN call.raised = "FileNotFoundError"
        ELSE /\ call.raised = ""
             /\ call.result[1].rows = RowsOfAll(call.args.kpi_dir, call.args.dates)

\* b is the calendar day after a.
IsNextDay(a, b) ==
    \/ /\ a[3] < DaysInMonth(a[1], a[2])
       /\ b = << a[1], a[2], a[3] + 1 >>
    \/ /\ a[3] = DaysInMonth(a[1], a[2]) /\ a[2] < 12
       /\ b = << a[1], a[2] + 1, 1 >>
    \/ /\ a[3] = 31 /\ a[2] = 12
       /\ b = << a[1] + 1, 1, 1 >>

\* datetime a is not after datetime b.
NotAfter(a, b) == a.date < b.date \/ (a.date = b.date /\ a.time <= b.time)

\* C28: _get_date_range(start, end) terminates and returns every calendar
\* date from start's date to end's date inclusive, ascending, without gaps or
\* duplicates: (end date - start date in days) + 1 dates when start <= end
\* and none when start's date is after end's date.
C28_DateRangeComplete ==
    call.fn = "_get_date_range" =>
        LET start_time == call.args.start_time
            end_time == call.args.end_time
            dates == call.result
        IN  /\ call.raised = ""
            /\ NotAfter(start_time, end_time) =>
                   /\ Len(dates) = end_time.date - start_time.date + 1
                   /\ dates[1] = Ord2Ymd(start_time.date)
                   /\ dates[Len(dates)] = Ord2Ymd(end_time.date)
            /\ start_time.date > end_time.date => dates = <<>>
            /\ \A i \in 1..(Len(dates) - 1) : IsNextDay(dates[i], dates[i + 1])

\* ---- context_snapshot.py

\* ceil(a / b)
CeilDiv(a, b) == (a + b - 1) \div b

\* The pages 1..n of the filtered rows, one after the other.
RECURSIVE PagesUpTo(_, _, _)
PagesUpTo(rows, n, page_size) ==
    IF n = 0 THEN <<>>
    ELSE PagesUpTo(rows, n - 1, page_size) \o Paginate(rows, n, page_size)

\* C29: for every page >= 1 and page_size in 1..500, get_context_snapshot
\* returns the filtered rows at positions [(page-1)*page_size, page*page_size)
\* in file order, 'total' is the number of filtered rows whatever the page,
\* pages past the end are empty, and pages 1..ceil(total/page_size) one after
\* the other are every filtered row exactly once.
C29_PagesPartitionRows ==
    (call.fn = "get_context_snapshot" /\ call.result.status = 200) =>
        LET a == call.args
            filtered == SnapshotFilter(a.file.rows, a.cell_name, a.start_time, a.end_time)
            first == (a.page - 1) * a.page_size
            positions == { i \in 1..Len(filtered) : first < i /\ i <= a.page * a.page_size }
        IN  /\ call.result.total = Len(filtered)
            /\ Len(call.result.data) = Cardinality(positions)
            /\ \A i \in 1..Len(call.result.data) : call.result.data[i] = filtered[first + i]
            /\ first >= Len(filtered) => call.result.data = <<>>
            /\ PagesUpTo(filtered, CeilDiv(Len(filtered), a.page_size), a.page_size) = filtered

\* C29 witness: the last, partly filled page of a file filtered by cell name.
C29_Witness ==
    /\ call.fn = "get_context_snapshot"
    /\ call.result.status = 200
    /\ call.args.page > 1
    /\ call.result.data # <<>>
    /\ Len(call.result.data) < call.args.page_size
    /\ call.result.total < Len(call.args.file.rows)

\* ---- main.py

\* C30: a request naming a path that does not exist is answered 404 by
\* list_files, get_dataframe_info, visualize_kpi_data and
\* generate_kpi_report, list_files answers 400 for a path that is not a
\* directory, and 500 is returned only for unexpected failures (not for the
\* refusals the handler raises itself).
C30_MissingPathAnswered404 ==
    call.fn \in { "list_files", "get_dataframe_info", "visualize_kpi_data",
                  "generate_kpi_report" } =>
        /\ call.args.path = "missing" => call.result.status = 404
        /\ ( /\ call.fn = "list_files"
             /\ call.args.path \notin { "missing", "directory", "locked_directory" } )
           => call.result.status = 400
        /\ call.result.status = 500 => call.raised # "HTTPException"

====
